---- MODULE Spec2Model ----
(***************************************************************************)
(* Task-progress aggregation and analytics engine of the task manager:     *)
(* the join of tasks, child tasks and progress records (services/task.ts), *)
(* the progress store adapter (services/taskProgress.ts), the task store   *)
(* (services/firestore.ts) and the derived statistics of the analytics     *)
(* components.                                                             *)
(***************************************************************************)
EXTENDS Integers, Sequences, FiniteSets, TLC

VARIABLES
    ruTask, ruOut,                      \* roll-up: input task, results
    wTasks, wNow, wSelected, wOut,      \* window statistics
    odTask, odNow, odOut,               \* overdue classification
    tasks, taskChild, taskProgress,     \* the document store: tasks, task_child, task_progress
    taskLevels,                         \* the document store: task_levels
    issued,                             \* how many document ids each collection has generated
    creator,                            \* createChildTask in flight
    remover,                            \* deleteChildTask in flight
    deleter,                            \* deleteTask in flight
    saver,                              \* saveTaskWithLevel (update path) in flight
    modal,                              \* CreateEditTaskModal: the open form and its handleSave
    creator2,                           \* createChildTask in flight in a second session
    clock,                              \* wall clock (new Date(), serverTimestamp())
    batch, calls,                       \* getMultipleAggregatedTasks in flight
    prevDone, lastDone,                 \* the last two completed getAggregatedTask calls
    inQuery,                            \* the last "in" query sent to task_progress
    fnArg, fnRes                        \* derived data: the input and the results computed from it

ruVars  == <<ruTask, ruOut>>
wVars   == <<wTasks, wNow, wSelected, wOut>>
odVars  == <<odTask, odNow, odOut>>
dbVars  == <<tasks, taskChild, taskProgress, taskLevels, issued>>
tabVars == <<modal, creator2>>
wrVars  == <<remover, deleter, saver, tabVars>>
rdVars  == <<batch, calls, prevDone, lastDone, inQuery>>
fnVars  == <<fnArg, fnRes>>
aggVars == <<tasks, taskChild, taskProgress, taskLevels, issued, creator, remover, deleter,
             saver, modal, creator2, clock, batch, calls, prevDone, lastDone, inQuery>>
vars    == <<ruTask, ruOut, wTasks, wNow, wSelected, wOut, odTask, odNow, odOut,
             tasks, taskChild, taskProgress, taskLevels, issued, creator, remover, deleter,
             saver, modal, creator2, clock, batch, calls, prevDone, lastDone, inQuery,
             fnArg, fnRes>>

(***************************************************************************)
(* TaskStatus (services/taskProgress.ts).  NoStatus is what                *)
(* `progress?.status` evaluates to when there is no progress record.       *)
(***************************************************************************)
NOT_STARTED == 1
IN_PROGRESS == 2
COMPLETED   == 3
CANCELLED   == 4
NoStatus    == 0

TaskStatus == {NOT_STARTED, IN_PROGRESS, COMPLETED, CANCELLED}

\* Math.round of the non-negative quotient num/den: the nearest integer, halves up.
MathRound(num, den) == (2 * num + den) \div (2 * den)

(***************************************************************************)
(* AggregatedTask as the roll-up functions read it: the optional progress  *)
(* (present/status) and the optional children array (defined/items), each  *)
(* child with its own optional progress.                                   *)
(***************************************************************************)
NoDate == <<>>

\* TASK_STATUS_LABELS
StatusLabel(st) ==
    CASE st = NOT_STARTED -> "Not Started"
      [] st = IN_PROGRESS -> "In Progress"
      [] st = COMPLETED   -> "Completed"
      [] st = CANCELLED   -> "Cancelled"
      [] OTHER            -> ""

\* TASK_STATUS_COLORS
StatusColor(st) ==
    CASE st = NOT_STARTED -> "#6c757d"
      [] st = IN_PROGRESS -> "#ffc107"
      [] st = COMPLETED   -> "#28a745"
      [] st = CANCELLED   -> "#dc3545"
      [] OTHER            -> ""

\* mapTaskProgress(null): undefined
NoProgress == [present |-> FALSE, status |-> NoStatus, statusLabel |-> "", statusColor |-> "",
               updatedAt |-> 0, completedAt |-> NoDate]

\* services/task.ts mapTaskProgress on a TaskProgress whose updated_at is the Date t
mapTaskProgress(st, t) ==
    [present |-> TRUE, status |-> st,
     statusLabel |-> StatusLabel(st), statusColor |-> StatusColor(st),
     updatedAt |-> t,
     completedAt |-> IF st = COMPLETED THEN <<t>> ELSE NoDate]

\* task.progress?.status
StatusOf(t) == IF t.progress.present THEN t.progress.status ELSE NoStatus

\* !task.children || task.children.length === 0
NoChildren(t) == ~t.children.defined \/ Len(t.children.items) = 0

\* Mutant: a cancelled child is counted as completed too.
CompletedChildrenOrCancelled(t) ==
    Cardinality({i \in 1..Len(t.children.items) :
                    StatusOf(t.children.items[i]) \in {COMPLETED, CANCELLED}})

\* task.children.filter((child) => child.progress?.status === COMPLETED).length
CompletedChildren(t) ==
    Cardinality({i \in 1..Len(t.children.items) : StatusOf(t.children.items[i]) = COMPLETED})

\* Mutant: an empty children array counts as "all children completed".
calculateTaskProgressVacuous(t) ==
    IF StatusOf(t) = COMPLETED THEN 100
    ELSE IF ~t.children.defined THEN 0
    ELSE IF Len(t.children.items) = 0 THEN 100
    ELSE MathRound(CompletedChildren(t) * 100, Len(t.children.items))

\* services/task.ts calculateTaskProgress
calculateTaskProgress(t) ==
    IF StatusOf(t) = COMPLETED THEN 100
    ELSE IF NoChildren(t) THEN 0
    ELSE MathRound(CompletedChildren(t) * 100, Len(t.children.items))

\* components/analytics/AnalyticsProgress.tsx calculateProgress, first revision
calculateProgressRev1(t) ==
    IF StatusOf(t) = COMPLETED THEN 100
    ELSE IF NoChildren(t) THEN 0
    ELSE MathRound(CompletedChildren(t) * 100, Len(t.children.items))

\* components/analytics/AnalyticsProgress.tsx calculateProgress, second revision:
\* the children are looked at first, the task's own status only without children.
calculateProgressRev2(t) ==
    IF NoChildren(t)
    THEN (IF StatusOf(t) = COMPLETED THEN 100 ELSE 0)
    ELSE MathRound(CompletedChildren(t) * 100, Len(t.children.items))

(***************************************************************************)
(* Roll-up specification: the input task is drawn from every own status    *)
(* (none included) and every children array up to MaxRollUpChildren, and   *)
(* each action applies one roll-up function to it.                         *)
(***************************************************************************)
MaxRollUpChildren == 4

SeqsUpTo(S, n) == UNION {[1..k -> S] : k \in 0..n}

ProgressOfStatus(st) == IF st = NoStatus THEN NoProgress ELSE mapTaskProgress(st, 0)

RollUpChild(st) == [progress |-> ProgressOfStatus(st)]

RollUpTask(st, defined, kids) ==
    [progress |-> ProgressOfStatus(st),
     children |-> [defined |-> defined,
                   items |-> [i \in 1..Len(kids) |-> RollUpChild(kids[i])]]]

RollUpInputs ==
    {RollUpTask(st, TRUE, kids) :
        st \in TaskStatus \cup {NoStatus},
        kids \in SeqsUpTo(TaskStatus \cup {NoStatus}, MaxRollUpChildren)}
    \cup {RollUpTask(st, FALSE, <<>>) : st \in TaskStatus \cup {NoStatus}}

\* A result not computed yet is <<>>, a computed result r is <<r>>.
NotRun == <<>>
NoTask == RollUpTask(NoStatus, FALSE, <<>>)

RollUpIdle == ruTask = NoTask /\ ruOut = [task |-> NotRun, rev1 |-> NotRun, rev2 |-> NotRun]

RunCalculateTaskProgress ==
    /\ ruOut.task = NotRun
    /\ ruOut' = [ruOut EXCEPT !.task = <<calculateTaskProgress(ruTask)>>]
    /\ UNCHANGED <<ruTask, wVars, odVars, aggVars, fnVars>>

RunCalculateProgressRev1 ==
    /\ ruOut.rev1 = NotRun
    /\ ruOut' = [ruOut EXCEPT !.rev1 = <<calculateProgressRev1(ruTask)>>]
    /\ UNCHANGED <<ruTask, wVars, odVars, aggVars, fnVars>>

RunCalculateProgressRev2 ==
    /\ ruOut.rev2 = NotRun
    /\ ruOut' = [ruOut EXCEPT !.rev2 = <<calculateProgressRev2(ruTask)>>]
    /\ UNCHANGED <<ruTask, wVars, odVars, aggVars, fnVars>>

(***************************************************************************)
(* Overdue classification.  An optional Date is <<>> (null/undefined) or   *)
(* <<t>>.  odTask holds the stored task (TaskItem, end_time) and its       *)
(* progress record; the analytics components read the AggregatedTask made  *)
(* of them (endTime, progress), TaskList and DataAnalyticsPage the         *)
(* TaskItem.                                                               *)
(***************************************************************************)
MaxOverdueTime == 2

\* mapToAggregatedTask, the fields the overdue tests read
OverdueAggregated(t) == [endTime |-> t.item.end_time, progress |-> t.progress]

\* AnalyticsSummary.getMonthlyStats: if (!task.endTime) return false;
\* new Date() > task.endTime && task.progress?.status !== COMPLETED
SummaryOverdue(a, now) ==
    IF a.endTime = NoDate THEN FALSE
    ELSE now > a.endTime[1] /\ StatusOf(a) # COMPLETED

\* AnalyticsHabits: t.endTime && t.endTime < now && t.progress?.status !== COMPLETED
HabitsOverdue(a, now) ==
    a.endTime # NoDate /\ a.endTime[1] < now /\ StatusOf(a) # COMPLETED

\* ChatBot.analyzeTaskData: the same expression as AnalyticsHabits
ChatBotOverdue(a, now) ==
    a.endTime # NoDate /\ a.endTime[1] < now /\ StatusOf(a) # COMPLETED

\* TaskList.loadTaskStatuses: progress?.task_status || TaskStatus.NOT_STARTED
LoadedStatus(progress) == IF progress.present THEN progress.status ELSE NOT_STARTED

\* TaskList.isTaskOverdue: task.end_time ? new Date() > new Date(task.end_time) : false
isTaskOverdue(item, now) == IF item.end_time # NoDate THEN now > item.end_time[1] ELSE FALSE

\* TaskList ribbon: taskStatuses[task.id] !== COMPLETED && isTaskOverdue(task)
TaskListOverdue(t, now) ==
    LoadedStatus(t.progress) # COMPLETED /\ isTaskOverdue(t.item, now)

\* DataAnalyticsPage.readDeadline: due_date ?? deadline ?? due_at ?? dueDate ?? null,
\* fields a stored task has only if some writer put them there.
readDeadline(item) ==
    IF "due_date" \in DOMAIN item THEN item.due_date
    ELSE IF "deadline" \in DOMAIN item THEN item.deadline
    ELSE IF "due_at" \in DOMAIN item THEN item.due_at
    ELSE IF "dueDate" \in DOMAIN item THEN item.dueDate
    ELSE NoDate

\* DataAnalyticsPage enriched: isOverdue = ddl ? isAfter(CURRENT_DATE, ddl) && !en : false
DataAnalyticsOverdue(item, now) ==
    LET ddl == readDeadline(item)
        en  == item.end_time
    IN  IF ddl # NoDate THEN now > ddl[1] /\ en = NoDate ELSE FALSE

\* The task documents saveTaskWithLevel writes carry end_time and no deadline field.
OverdueInputs ==
    {[item |-> [end_time |-> e], progress |-> ProgressOfStatus(st)] :
        e \in {NoDate} \cup {<<t>> : t \in 0..MaxOverdueTime},
        st \in TaskStatus \cup {NoStatus}}

OverdueSites == {"summary", "habits", "chatbot", "tasklist", "dataanalytics"}

RunSummaryOverdue ==
    /\ odOut.summary = NotRun
    /\ odOut' = [odOut EXCEPT !.summary = <<SummaryOverdue(OverdueAggregated(odTask), odNow)>>]
    /\ UNCHANGED <<odTask, odNow, ruVars, wVars, aggVars, fnVars>>

RunHabitsOverdue ==
    /\ odOut.habits = NotRun
    /\ odOut' = [odOut EXCEPT !.habits = <<HabitsOverdue(OverdueAggregated(odTask), odNow)>>]
    /\ UNCHANGED <<odTask, odNow, ruVars, wVars, aggVars, fnVars>>

RunChatBotOverdue ==
    /\ odOut.chatbot = NotRun
    /\ odOut' = [odOut EXCEPT !.chatbot = <<ChatBotOverdue(OverdueAggregated(odTask), odNow)>>]
    /\ UNCHANGED <<odTask, odNow, ruVars, wVars, aggVars, fnVars>>

RunTaskListOverdue ==
    /\ odOut.tasklist = NotRun
    /\ odOut' = [odOut EXCEPT !.tasklist = <<TaskListOverdue(odTask, odNow)>>]
    /\ UNCHANGED <<odTask, odNow, ruVars, wVars, aggVars, fnVars>>

RunDataAnalyticsOverdue ==
    /\ odOut.dataanalytics = NotRun
    /\ odOut' = [odOut EXCEPT !.dataanalytics = <<DataAnalyticsOverdue(odTask.item, odNow)>>]
    /\ UNCHANGED <<odTask, odNow, ruVars, wVars, aggVars, fnVars>>

(***************************************************************************)
(* Dates.  A Date is a number of ticks since 2025-01-01 00:00 local time,  *)
(* TicksPerDay ticks to the day.  The years the model touches (2025 to     *)
(* 2027) have 365 days.  Months are numbered 0..11 as Date does.           *)
(***************************************************************************)
TicksPerDay == 2

MonthLen   == <<31, 28, 31, 30, 31, 30, 31, 31, 30, 31, 30, 31>>
DaysBefore == <<0, 31, 59, 90, 120, 151, 181, 212, 243, 273, 304, 334>>

\* new Date(y, m, d) and setMonth/setDate: a month outside 0..11 carries into the
\* year and a day outside the month carries into the neighbouring months.
MkDate(y, m, d, tick) ==
    LET yy == y + (m \div 12)
        mm == m % 12
    IN  (365 * yy + DaysBefore[mm + 1] + (d - 1)) * TicksPerDay + tick

DayOf(t)   == t \div TicksPerDay
TickOf(t)  == t % TicksPerDay
getFullYear(t) == DayOf(t) \div 365
getMonth(t) ==
    LET doy == DayOf(t) % 365
    IN  CHOOSE m \in 0..11 : DaysBefore[m + 1] <= doy /\ doy < DaysBefore[m + 1] + MonthLen[m + 1]
getDate(t) == (DayOf(t) % 365) - DaysBefore[getMonth(t) + 1] + 1

\* d.setDate(d.getDate() - n)
SubDays(t, n) == t - n * TicksPerDay
\* d.setMonth(d.getMonth() - 1)
SetMonthBack(t) == MkDate(getFullYear(t), getMonth(t) - 1, getDate(t), TickOf(t))
\* d.setFullYear(d.getFullYear() - 1)
SetYearBack(t) == MkDate(getFullYear(t) - 1, getMonth(t), getDate(t), TickOf(t))
\* a.toDateString() === b.toDateString(), and setHours(0, 0, 0, 0) on both
SameDay(a, b) == DayOf(a) = DayOf(b)

\* `.filter(keep).length` of an array, keep given as the set of kept indices
Kept(list, keep) == [total |-> Cardinality(keep),
                     completed |-> Cardinality({i \in keep : StatusOf(list[i]) = COMPLETED})]

(***************************************************************************)
(* A rate that is not rounded is a quotient <<numerator, denominator>>.    *)
(***************************************************************************)
Rat(n, d)    == <<n, d>>
RatZero      == <<0, 1>>
RatPos(a)    == a[1] * a[2] > 0
RatSub(a, b) == <<a[1] * b[2] - b[1] * a[2], a[2] * b[2]>>
RatDiv(a, b) == <<a[1] * b[2], a[2] * b[1]>>
RatTimes(a, k) == <<a[1] * k, a[2]>>

\* Mutant: Math.floor in place of Math.round.
calculateStatsFloor(list, keep) ==
    LET k == Kept(list, keep)
    IN  [total |-> k.total,
         completed |-> k.completed,
         incomplete |-> k.total - k.completed,
         percentage |-> IF k.total # 0 THEN (k.completed * 100) \div k.total ELSE 0]

\* AnalyticsReport.calculateStats (both revisions) on the filtered tasks
calculateStats(list, keep) ==
    LET k == Kept(list, keep)
    IN  [total |-> k.total,
         completed |-> k.completed,
         incomplete |-> k.total - k.completed,
         percentage |-> IF k.total # 0 THEN MathRound(k.completed * 100, k.total) ELSE 0]

\* AnalyticsSummary.getMonthlyStats(date, taskList).  total is monthTasks.length,
\* which the code uses and does not return.
getMonthlyStats(date, list, now) ==
    LET startOfMonth == MkDate(getFullYear(date), getMonth(date), 1, 0)
        endOfMonth   == MkDate(getFullYear(date), getMonth(date) + 1, 0, 0)
        monthTasks   == {i \in 1..Len(list) :
                            /\ list[i].createdAt # NoDate
                            /\ list[i].createdAt[1] >= startOfMonth
                            /\ list[i].createdAt[1] <= endOfMonth}
        completed    == Cardinality({i \in monthTasks : StatusOf(list[i]) = COMPLETED})
        incomplete   == Cardinality({i \in monthTasks : StatusOf(list[i]) # COMPLETED})
        overdue      == Cardinality({i \in monthTasks : SummaryOverdue(list[i], now)})
    IN  [total |-> Cardinality(monthTasks),
         incomplete |-> incomplete,
         completed |-> completed,
         overdue |-> overdue,
         completionRate |-> IF Cardinality(monthTasks) > 0
                            THEN Rat(completed * 100, Cardinality(monthTasks))
                            ELSE RatZero]

\* Mutant: the growth rate without the previous-rate guard.
growthRateUnguarded(cur, prev) ==
    RatTimes(RatDiv(RatSub(cur.completionRate, prev.completionRate), prev.completionRate), 100)

\* AnalyticsSummary growth effect: the growth of the completion rate
growthRate(cur, prev) ==
    IF RatPos(prev.completionRate)
    THEN RatTimes(RatDiv(RatSub(cur.completionRate, prev.completionRate),
                         prev.completionRate), 100)
    ELSE RatZero

(***************************************************************************)
(* Window statistics: AnalyticsSummary (calendar month of the selected     *)
(* date, growth against the month before) and AnalyticsReport (days, week, *)
(* month and year back from now) over one array of aggregated tasks.       *)
(***************************************************************************)
MaxWindowTasks == 3

\* 2026-04-10 00:00 and 2026-03-31, the second tick of the day
NowChoices == {MkDate(1, 3, 10, 0), MkDate(1, 2, 31, 1)}

\* 2026-03-14 00:00; 2026-03-31, the second tick of the day; 2026-04-05 00:00
CreatedChoices == {MkDate(1, 2, 14, 0), MkDate(1, 2, 31, 1), MkDate(1, 3, 5, 0)}

\* no start time, or 2026-04-09 00:00
StartChoices == {NoDate, <<MkDate(1, 3, 9, 0)>>}

\* the month picker: "2026-03"
MonthChoices == {<<1, 3>>}

\* mapToAggregatedTask of a task created at `created`, with the progress record
\* (if any) written at `now`; getAggregatedTask always sets children (an array).
WindowTask(created, start, st, now) ==
    [createdAt |-> <<created>>,
     startTime |-> start,
     endTime |-> NoDate,
     progress |-> IF st = NoStatus THEN NoProgress ELSE mapTaskProgress(st, now),
     children |-> [defined |-> TRUE, items |-> <<>>]]

WindowInputs(now) ==
    SeqsUpTo({WindowTask(c, s, st, now) :
                 c \in {x \in CreatedChoices : x <= now},
                 s \in StartChoices,
                 st \in {NoStatus, COMPLETED}},
             MaxWindowTasks)

\* AnalyticsSummary growth effect: the statistics of the selected month, of the
\* month before, and the growth between them
summaryStats(selected, list, now) ==
    LET currentStats  == getMonthlyStats(selected, list, now)
        previousMonth == SetMonthBack(selected)
        previousStats == getMonthlyStats(previousMonth, list, now)
    IN  [current |-> currentStats,
         previous |-> previousStats,
         growthRate |-> growthRate(currentStats, previousStats)]

\* AnalyticsSummary.handleMonthChange: new Date(parseInt(year), parseInt(month) - 1);
\* the effect depends on selectedMonth and runs again.
handleMonthChange ==
    \E ym \in MonthChoices :
        /\ wSelected' = MkDate(ym[1], ym[2] - 1, 1, 0)
        /\ wSelected' # wSelected
        /\ wOut' = [wOut EXCEPT !.summary = NotRun]
        /\ UNCHANGED <<wTasks, wNow, ruVars, odVars, aggVars, fnVars>>

\* AnalyticsSummary useEffect([tasks, selectedMonth])
SummaryEffect ==
    /\ wOut.summary = NotRun
    /\ wOut' = [wOut EXCEPT !.summary = <<summaryStats(wSelected, wTasks, wNow)>>]
    /\ UNCHANGED <<wTasks, wNow, wSelected, ruVars, odVars, aggVars, fnVars>>

\* AnalyticsReport, first revision: every window by createdAt
reportStatsRev1(list, now) ==
    LET idx      == 1..Len(list)
        has(i)   == list[i].createdAt # NoDate
        weekAgo  == SubDays(now, 7)
        monthAgo == SetMonthBack(now)
        yearAgo  == SetYearBack(now)
    IN  [daily |-> [d \in 1..7 |->
             calculateStats(list, {i \in idx :
                 has(i) /\ SameDay(list[i].createdAt[1], SubDays(now, d - 1))})],
         weekly  |-> calculateStats(list,
                         {i \in idx : has(i) /\ list[i].createdAt[1] >= weekAgo}),
         monthly |-> calculateStats(list,
                         {i \in idx : has(i) /\ list[i].createdAt[1] >= monthAgo}),
         yearly  |-> calculateStats(list,
                         {i \in idx : has(i) /\ list[i].createdAt[1] >= yearAgo})]

\* AnalyticsReport useEffect([tasks]), first revision
ReportEffectRev1 ==
    /\ wOut.report1 = NotRun
    /\ wOut' = [wOut EXCEPT !.report1 = <<reportStatsRev1(wTasks, wNow)>>]
    /\ UNCHANGED <<wTasks, wNow, wSelected, ruVars, odVars, aggVars, fnVars>>

\* AnalyticsReport, second revision: the statistics over the parent tasks,
\* today/week/month by startTime and the days by progress.updatedAt (the workload
\* and trend charts of the same effect are not statistics windows).
reportStatsRev2(list, now) ==
    LET parentTasks == {i \in 1..Len(list) : list[i].children.defined}
        started(i)  == list[i].startTime # NoDate
        weekAgo     == SubDays(now, 7)
        monthAgo    == SetMonthBack(now)
    IN  [today |-> calculateStats(list, {i \in parentTasks :
                       started(i) /\ SameDay(list[i].startTime[1], now)}),
         daily |-> [d \in 1..7 |->
             calculateStats(list, {i \in parentTasks :
                 /\ list[i].progress.present
                 /\ SameDay(list[i].progress.updatedAt, SubDays(now, d - 1))})],
         weekly  |-> calculateStats(list, {i \in parentTasks :
                         started(i) /\ list[i].startTime[1] >= weekAgo}),
         monthly |-> calculateStats(list, {i \in parentTasks :
                         started(i) /\ list[i].startTime[1] >= monthAgo})]

\* AnalyticsReport useEffect([tasks]), second revision
ReportEffectRev2 ==
    /\ wOut.report2 = NotRun
    /\ wOut' = [wOut EXCEPT !.report2 = <<reportStatsRev2(wTasks, wNow)>>]
    /\ UNCHANGED <<wTasks, wNow, wSelected, ruVars, odVars, aggVars, fnVars>>

(***************************************************************************)
(* The document store (services/firestore.ts, services/taskProgress.ts).   *)
(* A collection is a function from the ids of its documents to their       *)
(* data.  A stored time is a Firestore Timestamp, read back through        *)
(* toDate(); a Date is a clock value; a nullable field is <<>> or <<v>>.   *)
(***************************************************************************)
BatchLimit == 10

MaxCreates == 1
MaxTasks == 2
MaxClock == 1

Users == {"u1", "u2"}
LevelChoices == {3}

ChildId(k) == 100 + k
\* task 1 is the one task that gets saved, task 2 never exists
QueryIds == {1, 2}
ParentChoices == {1, 2}
ProgressChoices == {<<1, IN_PROGRESS>>, <<ChildId(1), COMPLETED>>}
BatchChoices == {<<1>>, <<1, 2>>}
InitChildCounts == {BatchLimit}

Timestamp(t) == [toDate |-> t]

\* firestore.ts normalizeDate: null stays null, a Timestamp goes through toDate()
normalizeDate(d) == IF d = <<>> THEN NoDate ELSE <<d[1].toDate>>

\* taskProgress.ts normalizeDate: a missing value becomes new Date()
normalizeDateOrNow(d, now) == IF d = <<>> THEN now ELSE d[1].toDate

\* LEVEL_LABELS[level], undefined outside 1..5
LEVEL_LABELS(level) ==
    CASE level = 1 -> <<"Very Important">>
      [] level = 2 -> <<"Important">>
      [] level = 3 -> <<"Normal">>
      [] level = 4 -> <<"Daily">>
      [] level = 5 -> <<"Leisure">>
      [] OTHER     -> <<>>

\* task.level ? LEVEL_LABELS[task.level] : undefined
LevelLabelOf(level) ==
    IF level = <<>> \/ level = <<0>> THEN <<>> ELSE LEVEL_LABELS(level[1])

NullArray == [defined |-> FALSE, items |-> <<>>]

ArrayOf(items) == [defined |-> TRUE, items |-> items]

\* the ids of a collection in document-id order
RECURSIVE SortedIds(_)
SortedIds(S) ==
    IF S = {} THEN <<>>
    ELSE LET m == CHOOSE x \in S : \A y \in S : x <= y
         IN  <<m>> \o SortedIds(S \ {m})

\* an id the collection has not generated before
FreshTaskId == issued.tasks + 1
FreshChildId == ChildId(issued.task_child + 1)
FreshLevelId == issued.task_levels + 1

\* saveTaskWithLevel, create path: the task document
taskPayload(uid, level, now) ==
    [task_name |-> "task", task_detail |-> "", task_child |-> NullArray,
     start_time |-> NoDate, end_time |-> NoDate,
     createdAt |-> <<Timestamp(now)>>, user_id |-> uid, level |-> <<level>>]

\* createChildTask: the child document
childPayload(uid, parentId, now) ==
    [task_name |-> "child", task_detail |-> "",
     start_time |-> NoDate, end_time |-> NoDate, level |-> <<>>,
     parent_id |-> parentId, user_id |-> uid, createdAt |-> <<Timestamp(now)>>]

\* Mutant: updateTaskProgress leaving updated_at out of the document.
progressPayloadNoDate(taskId, status, now) ==
    [task_id |-> taskId, task_status |-> status, updated_at |-> <<>>]

\* updateTaskProgress: the progress document
progressPayload(taskId, status, now) ==
    [task_id |-> taskId, task_status |-> status, updated_at |-> <<Timestamp(now)>>]

\* getTaskById
getTaskById(taskId) ==
    IF taskId \notin DOMAIN tasks THEN <<>>
    ELSE LET data == tasks[taskId]
             levelDocs == {l \in DOMAIN taskLevels : taskLevels[l].task_id = taskId}
             lvl == IF data.level # <<>> THEN data.level
                    ELSE IF levelDocs # {}
                         THEN <<taskLevels[SortedIds(levelDocs)[1]].level>>
                         ELSE <<>>
         IN  <<[id |-> taskId,
                task_name |-> data.task_name,
                task_detail |-> data.task_detail,
                task_child |-> data.task_child,
                start_time |-> normalizeDate(data.start_time),
                end_time |-> normalizeDate(data.end_time),
                createdAt |-> normalizeDate(data.createdAt),
                user_id |-> data.user_id,
                level |-> lvl]>>

\* getChildTasksByParentId
getChildTasksByParentId(parentId) ==
    LET ids == SortedIds({c \in DOMAIN taskChild : taskChild[c].parent_id = parentId})
    IN  [i \in 1..Len(ids) |->
            LET data == taskChild[ids[i]]
            IN  [id |-> ids[i],
                 task_name |-> data.task_name,
                 task_detail |-> data.task_detail,
                 start_time |-> normalizeDate(data.start_time),
                 end_time |-> normalizeDate(data.end_time),
                 user_id |-> data.user_id,
                 level |-> data.level,
                 parent_id |-> data.parent_id,
                 createdAt |-> normalizeDate(data.createdAt)]]

\* the TaskProgress read from one progress document
readProgress(data, now) ==
    [task_id |-> data.task_id, task_status |-> data.task_status,
     updated_at |-> normalizeDateOrNow(data.updated_at, now)]

\* getTaskProgress
getTaskProgress(taskId, now) ==
    IF taskId \notin DOMAIN taskProgress THEN <<>>
    ELSE <<readProgress(taskProgress[taskId], now)>>

\* getMultipleTaskProgress: the map built from the documents the query matches
getMultipleTaskProgress(taskIds, now) ==
    LET wanted == {taskIds[i] : i \in 1..Len(taskIds)}
        docs == {p \in DOMAIN taskProgress : taskProgress[p].task_id \in wanted}
    IN  [id \in {taskProgress[p].task_id : p \in docs} |->
            readProgress(taskProgress[CHOOSE p \in docs : taskProgress[p].task_id = id],
                         now)]

\* progress ? mapTaskProgress(progress) : undefined
progressOf(progress) ==
    IF progress = <<>> THEN NoProgress
    ELSE mapTaskProgress(progress[1].task_status, progress[1].updated_at)

\* mapToAggregatedTask
mapToAggregatedTask(task, progress, children) ==
    [id |-> task.id, taskName |-> task.task_name, taskDetail |-> task.task_detail,
     startTime |-> task.start_time, endTime |-> task.end_time,
     userId |-> task.user_id, level |-> task.level,
     levelLabel |-> LevelLabelOf(task.level),
     progress |-> progressOf(progress),
     children |-> ArrayOf(children),
     createdAt |-> task.createdAt]

\* mapToAggregatedChildTask
mapToAggregatedChildTask(child, progress) ==
    [id |-> child.id, taskName |-> child.task_name, taskDetail |-> child.task_detail,
     startTime |-> child.start_time, endTime |-> child.end_time,
     userId |-> child.user_id, level |-> child.level,
     levelLabel |-> LevelLabelOf(child.level),
     progress |-> progressOf(progress),
     parentId |-> child.parent_id,
     createdAt |-> child.createdAt]

(***************************************************************************)
(* Writers of the store.  A write ends the write-free period the reader's  *)
(* history is about: the calls in flight are no longer clean and the       *)
(* completed calls remembered so far are forgotten.                        *)
(***************************************************************************)
NoHistory == [id \in QueryIds |-> <<>>]

InFlight(c) == c.pc \notin {"fulfilled", "rejected"}

Written ==
    /\ calls' = [i \in DOMAIN calls |->
                    IF InFlight(calls[i]) THEN [calls[i] EXCEPT !.clean = FALSE]
                    ELSE calls[i]]
    /\ batch' = IF batch.status = "pending" THEN [batch EXCEPT !.clean = FALSE] ELSE batch
    /\ prevDone' = NoHistory
    /\ lastDone' = NoHistory
    /\ UNCHANGED inQuery

\* new Date() and serverTimestamp() advance
Tick ==
    /\ clock < MaxClock
    /\ clock' = clock + 1
    /\ UNCHANGED <<dbVars, creator, rdVars, ruVars, wVars, odVars, fnVars, wrVars>>

\* saveTaskWithLevel(uid, task) without task.id (create path): one batch commit
\* creates the task document and its task_levels document
saveTaskWithLevelCreate ==
    \E uid \in {"u1"}, level \in LevelChoices :
        /\ FreshTaskId \notin QueryIds \ {1}
        /\ FreshTaskId <= MaxTasks
        /\ tasks' = [id \in DOMAIN tasks \cup {FreshTaskId} |->
                        IF id \in DOMAIN tasks THEN tasks[id]
                        ELSE taskPayload(uid, level, clock)]
        /\ taskLevels' = [l \in DOMAIN taskLevels \cup {FreshLevelId} |->
                             IF l \in DOMAIN taskLevels THEN taskLevels[l]
                             ELSE [task_id |-> FreshTaskId, level |-> level]]
        /\ issued' = [issued EXCEPT !.tasks = @ + 1, !.task_levels = @ + 1]
        /\ Written
        /\ UNCHANGED <<taskChild, taskProgress, creator, clock, ruVars, wVars, odVars, fnVars, wrVars>>

\* createChildTask(uid, parentId, childTask), up to the validation of the parent,
\* which throws when the parent is missing or belongs to someone else
createChildTaskValidate ==
    \E uid \in Users, parentId \in ParentChoices :
        /\ creator.pc = "idle"
        /\ creator.made < MaxCreates
        /\ creator' =
             IF parentId \notin DOMAIN tasks \/ tasks[parentId].user_id # uid
             THEN creator
             ELSE [pc |-> "validated", made |-> creator.made + 1, uid |-> uid,
                   parentId |-> parentId, parentData |-> tasks[parentId]]
        /\ UNCHANGED <<dbVars, clock, rdVars, ruVars, wVars, odVars, fnVars, wrVars>>

\* createChildTask: addDoc(collection(db, "task_child"), ...)
createChildTaskAdd ==
    /\ creator.pc = "validated"
    /\ taskChild' = [c \in DOMAIN taskChild \cup {FreshChildId} |->
                        IF c \in DOMAIN taskChild THEN taskChild[c]
                        ELSE childPayload(creator.uid, creator.parentId, clock)]
    /\ creator' = [pc |-> "added", made |-> creator.made, uid |-> creator.uid,
                   parentId |-> creator.parentId, parentData |-> creator.parentData,
                   childId |-> FreshChildId]
    /\ issued' = [issued EXCEPT !.task_child = @ + 1]
    /\ Written
    /\ UNCHANGED <<tasks, taskProgress, taskLevels, clock, ruVars, wVars, odVars, fnVars, wrVars>>

\* createChildTask: updateDoc(parentRef, {task_child: [...currentChildren, id]})
\* with the children read at validation
createChildTaskUpdateParent ==
    /\ creator.pc = "added"
    /\ LET currentChildren == creator.parentData.task_child
           appended == IF currentChildren.defined
                       THEN ArrayOf(Append(currentChildren.items, creator.childId))
                       ELSE ArrayOf(<<creator.childId>>)
       IN  IF creator.parentId \in DOMAIN tasks
           THEN tasks' = [tasks EXCEPT ![creator.parentId].task_child = appended]
           ELSE tasks' = tasks
    /\ creator' = [pc |-> "idle", made |-> creator.made]
    /\ Written
    /\ UNCHANGED <<taskChild, taskProgress, taskLevels, issued, clock, ruVars, wVars, odVars, fnVars, wrVars>>

\* updateTaskProgress(taskId, status): setDoc on task_progress/taskId
updateTaskProgress ==
    \E choice \in ProgressChoices :
      LET taskId == choice[1]
          status == choice[2]
      IN
        /\ taskId \in DOMAIN tasks \cup DOMAIN taskChild
        /\ taskProgress' = [p \in DOMAIN taskProgress \cup {taskId} |->
                               IF p = taskId THEN progressPayload(taskId, status, clock)
                               ELSE taskProgress[p]]
        /\ Written
        /\ UNCHANGED <<tasks, taskChild, taskLevels, issued, creator, clock, ruVars, wVars, odVars, fnVars, wrVars>>

(***************************************************************************)
(* The other writers of the store: deleteChildTask, deleteTask and the     *)
(* update path of saveTaskWithLevel, each a read (or several) followed by  *)
(* one batch commit.  A commit that updates a document which is no longer  *)
(* there fails as a whole and changes nothing.                             *)
(***************************************************************************)
DeleteChoices == {1}
EditChoices == {1}

\* the collection without the documents of the given ids
Without(coll, ids) == [id \in DOMAIN coll \ ids |-> coll[id]]

\* data.task_child || []
itemsOrEmpty(array) == IF array.defined THEN array.items ELSE <<>>

\* deleteChildTask(childId, parentId), up to the read of the parent
deleteChildTaskRead ==
    \E childId \in DOMAIN taskChild :
        LET parentId == taskChild[childId].parent_id
            exists == parentId \in DOMAIN tasks
        IN  /\ remover.pc = "idle"
            /\ remover' = [pc |-> "read", childId |-> childId, parentId |-> parentId,
                           exists |-> exists,
                           currentChildren |->
                               IF exists THEN itemsOrEmpty(tasks[parentId].task_child)
                               ELSE <<>>]
            /\ UNCHANGED <<dbVars, creator, tabVars, deleter, saver, clock, rdVars,
                           ruVars, wVars, odVars, fnVars>>

\* deleteChildTask: batch.commit() of the child's deletion and, when the parent
\* was there, of its filtered task_child array
deleteChildTaskCommit ==
    /\ remover.pc = "read"
    /\ remover' = [pc |-> "idle"]
    /\ IF remover.exists /\ remover.parentId \notin DOMAIN tasks
       THEN UNCHANGED <<tasks, taskChild, rdVars>>
       ELSE /\ taskChild' = Without(taskChild, {remover.childId})
            /\ tasks' = IF remover.exists
                        THEN [tasks EXCEPT ![remover.parentId].task_child =
                                 ArrayOf(SelectSeq(remover.currentChildren,
                                                   LAMBDA id : id # remover.childId))]
                        ELSE tasks
            /\ Written
    /\ UNCHANGED <<taskProgress, taskLevels, issued, creator, tabVars, deleter, saver, clock,
                   ruVars, wVars, odVars, fnVars>>

\* deleteTask(taskId), up to the read of the task: childIds = task_child || []
deleteTaskRead ==
    \E taskId \in DeleteChoices :
        LET childIds == IF taskId \in DOMAIN tasks
                        THEN itemsOrEmpty(tasks[taskId].task_child) ELSE <<>>
        IN  /\ deleter.pc \in {"idle", "done"}
            /\ taskId <= issued.tasks
            /\ deleter' = [pc |-> IF childIds = <<>> THEN "main" ELSE "children",
                           taskId |-> taskId, childIds |-> childIds, i |-> 1,
                           levelRefs |-> {}]
            /\ UNCHANGED <<dbVars, creator, tabVars, remover, saver, clock, rdVars,
                           ruVars, wVars, odVars, fnVars>>

\* deleteTask: the task_levels query of the next child
deleteTaskChildLevels ==
    /\ deleter.pc = "children"
    /\ LET childId == deleter.childIds[deleter.i]
           found == {l \in DOMAIN taskLevels : taskLevels[l].task_id = childId}
       IN  deleter' = [deleter EXCEPT
                          !.levelRefs = @ \cup found,
                          !.i = @ + 1,
                          !.pc = IF deleter.i = Len(deleter.childIds)
                                 THEN "main" ELSE "children"]
    /\ UNCHANGED <<dbVars, creator, tabVars, remover, saver, clock, rdVars,
                   ruVars, wVars, odVars, fnVars>>

\* deleteTask: the task_levels query of the task itself
deleteTaskMainLevels ==
    /\ deleter.pc = "main"
    /\ LET found == {l \in DOMAIN taskLevels : taskLevels[l].task_id = deleter.taskId}
       IN  deleter' = [deleter EXCEPT !.levelRefs = @ \cup found, !.pc = "commit"]
    /\ UNCHANGED <<dbVars, creator, tabVars, remover, saver, clock, rdVars,
                   ruVars, wVars, odVars, fnVars>>

\* deleteTask: batch.commit() deletes the listed children, the level documents
\* found and the task; the call returns, and `left` is what the store still
\* holds of the task at that moment
deleteTaskCommit ==
    /\ deleter.pc = "commit"
    /\ LET listed == {deleter.childIds[k] : k \in 1..Len(deleter.childIds)}
           kids == listed \cup
                   {c \in DOMAIN taskChild : taskChild[c].parent_id = deleter.taskId}
       IN  /\ taskChild' = Without(taskChild, listed)
           /\ taskLevels' = Without(taskLevels, deleter.levelRefs)
           /\ tasks' = Without(tasks, {deleter.taskId})
           /\ deleter' = [pc |-> "done", taskId |-> deleter.taskId,
                          left |-> [task |-> deleter.taskId \in DOMAIN tasks',
                                    children |-> {c \in DOMAIN taskChild' :
                                        taskChild'[c].parent_id = deleter.taskId},
                                    progress |-> {p \in DOMAIN taskProgress :
                                        p = deleter.taskId \/ p \in kids}]]
    /\ Written
    /\ UNCHANGED <<taskProgress, issued, creator, tabVars, remover, saver, clock,
                   ruVars, wVars, odVars, fnVars>>

\* saveTaskWithLevel(uid, task) with task.id (update path), up to the task_levels
\* query; task_child is left out by the caller, or is the array the caller holds.
\* Document ids are generated by the store: a caller holds the id of a task
\* that has been created, never one yet to come.
saveTaskWithLevelRead ==
    \E id \in EditChoices, level \in LevelChoices, withChildren \in BOOLEAN :
        /\ saver.pc = "idle"
        /\ id <= issued.tasks
        /\ withChildren => id \in DOMAIN tasks /\ tasks[id].task_child.defined
        /\ saver' = [pc |-> "read", id |-> id, level |-> level,
                     task_child |-> IF withChildren THEN tasks[id].task_child
                                    ELSE NullArray,
                     levelDocs |-> SortedIds({l \in DOMAIN taskLevels :
                                                 taskLevels[l].task_id = id})]
        /\ UNCHANGED <<dbVars, creator, tabVars, remover, deleter, clock, rdVars,
                       ruVars, wVars, odVars, fnVars>>

\* Mutant: the update path writing the task document alone.
saveTaskWithLevelCommitTaskOnly ==
    /\ saver.pc = "read"
    /\ saver' = [pc |-> "idle"]
    /\ IF saver.id \notin DOMAIN tasks
       THEN UNCHANGED <<tasks, rdVars>>
       ELSE /\ tasks' = [tasks EXCEPT ![saver.id].level = <<saver.level>>]
            /\ Written
    /\ UNCHANGED <<taskChild, taskProgress, taskLevels, issued, creator, tabVars, remover,
                   deleter, clock, ruVars, wVars, odVars, fnVars>>

\* saveTaskWithLevel (update path): batch.commit() updates the task document,
\* task_child included, and updates the first level document or sets a new one
saveTaskWithLevelCommit ==
    /\ saver.pc = "read"
    /\ saver' = [pc |-> "idle"]
    /\ LET id == saver.id
           hasLevel == saver.levelDocs # <<>>
           fails == \/ id \notin DOMAIN tasks
                    \/ hasLevel /\ saver.levelDocs[1] \notin DOMAIN taskLevels
       IN  IF fails
           THEN UNCHANGED <<tasks, taskLevels, issued, rdVars>>
           ELSE /\ tasks' = [tasks EXCEPT ![id] =
                                [@ EXCEPT !.task_name = "task", !.task_detail = "",
                                          !.start_time = NoDate, !.end_time = NoDate,
                                          !.level = <<saver.level>>,
                                          !.task_child = saver.task_child]]
                /\ IF hasLevel
                   THEN /\ taskLevels' = [taskLevels EXCEPT
                                             ![saver.levelDocs[1]].level = saver.level]
                        /\ UNCHANGED issued
                   ELSE /\ taskLevels' =
                             [l \in DOMAIN taskLevels \cup {FreshLevelId} |->
                                 IF l \in DOMAIN taskLevels THEN taskLevels[l]
                                 ELSE [task_id |-> id, level |-> saver.level]]
                        /\ issued' = [issued EXCEPT !.task_levels = @ + 1]
                /\ Written
    /\ UNCHANGED <<taskChild, taskProgress, creator, tabVars, remover, deleter, clock,
                   ruVars, wVars, odVars, fnVars>>

(***************************************************************************)
(* getMultipleAggregatedTasks(taskIds): Promise.all over one               *)
(* getAggregatedTask(id) per id, each advancing from one await to the next.*)
(***************************************************************************)
NewCall(id) ==
    [id |-> id, pc |-> "getTaskById", task |-> <<>>, progress |-> <<>>,
     childTasks |-> <<>>, out |-> <<>>, clean |-> TRUE, source |-> NullArray]

\* a call that has returned or thrown keeps no locals; `source` is the child-id
\* list of the task it read
Settled(c, pc, out) ==
    [id |-> c.id, pc |-> pc, task |-> <<>>, progress |-> <<>>,
     childTasks |-> <<>>, out |-> out, clean |-> c.clean,
     source |-> IF c.task = <<>> THEN NullArray ELSE c.task[1].task_child]

\* the completed call becomes the latest one of its id within the write-free period
Remember(c) ==
    IF c.clean
    THEN /\ prevDone' = [prevDone EXCEPT ![c.id] = lastDone[c.id]]
         /\ lastDone' = [lastDone EXCEPT ![c.id] = <<[pc |-> c.pc, out |-> c.out]>>]
    ELSE UNCHANGED <<prevDone, lastDone>>

getMultipleAggregatedTasks ==
    \E taskIds \in BatchChoices :
        /\ batch.status # "pending"
        /\ \A i \in DOMAIN calls : ~InFlight(calls[i])
        /\ batch' = [status |-> "pending", ids |-> taskIds, out |-> <<>>, clean |-> TRUE,
                     existed |-> DOMAIN tasks]
        /\ calls' = [i \in 1..Len(taskIds) |-> NewCall(taskIds[i])]
        /\ UNCHANGED <<dbVars, creator, clock, prevDone, lastDone, inQuery,
                       ruVars, wVars, odVars, fnVars, wrVars>>

\* const task = await getTaskById(taskId); if (!task) return null;
AggGetTaskById ==
    \E i \in DOMAIN calls :
        /\ calls[i].pc = "getTaskById"
        /\ LET task == getTaskById(calls[i].id)
               next == IF task = <<>> THEN Settled(calls[i], "fulfilled", <<>>)
                       ELSE [calls[i] EXCEPT !.pc = "getTaskProgress", !.task = task]
           IN  /\ calls' = [calls EXCEPT ![i] = next]
               /\ IF task = <<>> THEN Remember(next) ELSE UNCHANGED <<prevDone, lastDone>>
        /\ UNCHANGED <<dbVars, creator, clock, batch, inQuery, ruVars, wVars, odVars, fnVars, wrVars>>

\* const progress = await getTaskProgress(taskId); without children the call
\* returns mapToAggregatedTask(task, progress, [])
AggGetTaskProgress ==
    \E i \in DOMAIN calls :
        /\ calls[i].pc = "getTaskProgress"
        /\ LET task == calls[i].task[1]
               progress == getTaskProgress(calls[i].id, clock)
               hasChildren == task.task_child.defined /\ Len(task.task_child.items) > 0
               next == IF hasChildren
                       THEN [calls[i] EXCEPT !.pc = "getChildTasks", !.progress = progress]
                       ELSE Settled(calls[i], "fulfilled",
                                    <<mapToAggregatedTask(task, progress, <<>>)>>)
           IN  /\ calls' = [calls EXCEPT ![i] = next]
               /\ IF hasChildren THEN UNCHANGED <<prevDone, lastDone>> ELSE Remember(next)
        /\ UNCHANGED <<dbVars, creator, clock, batch, inQuery, ruVars, wVars, odVars, fnVars, wrVars>>

\* const childTasks = await getChildTasksByParentId(taskId);
AggGetChildTasks ==
    \E i \in DOMAIN calls :
        /\ calls[i].pc = "getChildTasks"
        /\ calls' = [calls EXCEPT ![i] =
                        [@ EXCEPT !.pc = "getMultipleTaskProgress",
                                  !.childTasks = getChildTasksByParentId(calls[i].id)]]
        /\ UNCHANGED <<dbVars, creator, clock, batch, prevDone, lastDone, inQuery,
                       ruVars, wVars, odVars, fnVars, wrVars>>

\* const childProgressMap = await getMultipleTaskProgress(task.task_child): the
\* "in" query rejects a list of more than BatchLimit values; otherwise the
\* children are mapped and the call returns
AggGetMultipleTaskProgress ==
    \E i \in DOMAIN calls :
        /\ calls[i].pc = "getMultipleTaskProgress"
        /\ LET task == calls[i].task[1]
               taskIds == task.task_child.items
               childProgressMap == getMultipleTaskProgress(taskIds, clock)
               childTasks == calls[i].childTasks
               children == [k \in 1..Len(childTasks) |->
                   mapToAggregatedChildTask(childTasks[k],
                       IF childTasks[k].id \in DOMAIN childProgressMap
                       THEN <<childProgressMap[childTasks[k].id]>> ELSE <<>>)]
               next == IF Len(taskIds) > BatchLimit
                       THEN Settled(calls[i], "rejected", <<>>)
                       ELSE Settled(calls[i], "fulfilled",
                                <<mapToAggregatedTask(task, calls[i].progress, children)>>)
           IN  /\ inQuery' = <<Len(taskIds)>>
               /\ calls' = [calls EXCEPT ![i] = next]
               /\ Remember(next)
        /\ UNCHANGED <<dbVars, creator, clock, batch, ruVars, wVars, odVars, fnVars, wrVars>>

\* Promise.all rejects with the first rejection, else resolves; the null
\* results are filtered out
AggSettle ==
    /\ batch.status = "pending"
    /\ \/ \E i \in DOMAIN calls : calls[i].pc = "rejected"
       \/ \A i \in DOMAIN calls : calls[i].pc = "fulfilled"
    /\ LET results == [i \in DOMAIN calls |-> calls[i].out]
           found == SelectSeq(results, LAMBDA r : r # <<>>)
       IN  batch' = IF \E i \in DOMAIN calls : calls[i].pc = "rejected"
                    THEN [batch EXCEPT !.status = "rejected"]
                    ELSE [batch EXCEPT !.status = "resolved",
                                       !.out = [k \in 1..Len(found) |-> found[k][1]]]
    /\ UNCHANGED <<dbVars, creator, clock, calls, prevDone, lastDone, inQuery,
                   ruVars, wVars, odVars, fnVars, wrVars>>

WindowIdle ==
    /\ wTasks = <<>> /\ wNow = 0 /\ wSelected = 0
    /\ wOut = [summary |-> NotRun, report1 |-> NotRun, report2 |-> NotRun]

OverdueIdle ==
    /\ odTask = [item |-> [end_time |-> NoDate], progress |-> NoProgress]
    /\ odNow = 0
    /\ odOut = [s \in OverdueSites |-> NotRun]

\* nobody is writing or reading
\* CreateEditTaskModal with open = false; `outcome`, `writes` and `form` are what
\* the last handleSave of the component was given and did, `beside` where the
\* other session's saveTaskWithLevel was when this one sent its query
ModalClosed(user) ==
    [pc |-> "closed", currentUser |-> user, saves |-> 0, revision |-> "",
     edit |-> <<>>, childTasks |-> <<>>, form |-> <<>>, mainTaskId |-> <<>>,
     levelDocs |-> <<>>, i |-> 1, savedChildIds |-> <<>>, threw |-> FALSE,
     writes |-> 0, outcome |-> "none", owned |-> TRUE, uid |-> <<>>,
     beside |-> "idle"]

ClientsIdle ==
    /\ creator = [pc |-> "idle", made |-> 0]
    /\ remover = [pc |-> "idle"]
    /\ deleter = [pc |-> "idle"]
    /\ saver = [pc |-> "idle"]
    /\ modal = ModalClosed(<<"u1">>)
    /\ creator2 = [pc |-> "idle", made |-> 0]
    /\ clock = 0
    /\ batch = [status |-> "idle", ids |-> <<>>, out |-> <<>>, clean |-> TRUE,
                existed |-> {}]
    /\ calls = <<>>
    /\ prevDone = NoHistory /\ lastDone = NoHistory /\ inQuery = <<>>

\* the store before anything is saved
StoreEmpty ==
    /\ tasks = <<>> /\ taskChild = <<>> /\ taskProgress = <<>> /\ taskLevels = <<>>
    /\ issued = [tasks |-> 0, task_child |-> 0, task_levels |-> 0]

\* the store after saveTaskWithLevel and n completed createChildTask calls of
\* the owner on that task
StoreWithChildren(n) ==
    \E level \in LevelChoices :
        /\ tasks = [id \in {1} |->
                       [taskPayload("u1", level, 0) EXCEPT
                           !.task_child = ArrayOf([k \in 1..n |-> ChildId(k)])]]
        /\ taskChild = [c \in {ChildId(k) : k \in 1..n} |-> childPayload("u1", 1, 0)]
        /\ taskLevels = [l \in {1} |-> [task_id |-> 1, level |-> level]]
        /\ taskProgress = <<>>
        /\ issued = [tasks |-> 1, task_child |-> n, task_levels |-> 1]

AggIdle == StoreEmpty /\ ClientsIdle

\* no derived data is being computed
FnIdle == fnArg = <<>> /\ fnRes = <<>>

InitRollUp ==
    /\ ruTask \in RollUpInputs
    /\ ruOut = [task |-> NotRun, rev1 |-> NotRun, rev2 |-> NotRun]
    /\ WindowIdle /\ OverdueIdle /\ AggIdle /\ FnIdle

NextRollUp ==
    \/ RunCalculateTaskProgress
    \/ RunCalculateProgressRev1
    \/ RunCalculateProgressRev2

SpecRollUp == InitRollUp /\ [][NextRollUp]_vars

\* C1: a task whose own status is COMPLETED rolls up to 100 whatever its children
\* are, under calculateTaskProgress and under both calculateProgress revisions.
C1_CompletedIs100 ==
    StatusOf(ruTask) = COMPLETED =>
        /\ ruOut.task # NotRun => ruOut.task = <<100>>
        /\ ruOut.rev1 # NotRun => ruOut.rev1 = <<100>>
        /\ ruOut.rev2 # NotRun => ruOut.rev2 = <<100>>

C3_NoChildrenIsZero ==
    (/\ ~(ruTask.progress.present /\ ruTask.progress.status = COMPLETED)
     /\ (~ruTask.children.defined \/ ruTask.children.items = <<>>)
     /\ ruOut.task # NotRun)
    => ruOut.task = <<0>>

\* C3 witness: a task with no progress record and an empty children array,
\* rolled up.
C3_EmptyRolledUp ==
    /\ ~ruTask.progress.present
    /\ ruTask.children.defined
    /\ ruTask.children.items = <<>>
    /\ ruOut.task = <<0>>

InitOverdue ==
    /\ odTask \in OverdueInputs
    /\ odNow \in 0..MaxOverdueTime
    /\ odOut = [s \in OverdueSites |-> NotRun]
    /\ RollUpIdle /\ WindowIdle /\ AggIdle /\ FnIdle

NextOverdue ==
    \/ RunSummaryOverdue
    \/ RunHabitsOverdue
    \/ RunChatBotOverdue
    \/ RunTaskListOverdue
    \/ RunDataAnalyticsOverdue

SpecOverdue == InitOverdue /\ [][NextOverdue]_vars

\* C7: every overdue computation classifies a task as overdue exactly when
\* endTime != null && endTime < now && status != COMPLETED.
C7_OverdueRule ==
    LET rule == /\ odTask.item.end_time # NoDate
                /\ odTask.item.end_time[1] < odNow
                /\ ~(odTask.progress.present /\ odTask.progress.status = COMPLETED)
    IN  \A s \in OverdueSites : odOut[s] # NotRun => odOut[s] = <<rule>>

\* C7, the sites other than DataAnalyticsPage: they all follow the rule.
C7_RuleButDataAnalytics ==
    LET rule == /\ odTask.item.end_time # NoDate
                /\ odTask.item.end_time[1] < odNow
                /\ ~(odTask.progress.present /\ odTask.progress.status = COMPLETED)
    IN  \A s \in OverdueSites \ {"dataanalytics"} : odOut[s] # NotRun => odOut[s] = <<rule>>

\* useState(new Date()): the selected month starts as the current date
InitWindow ==
    /\ wNow \in NowChoices
    /\ wTasks \in WindowInputs(wNow)
    /\ wSelected = wNow
    /\ wOut = [summary |-> NotRun, report1 |-> NotRun, report2 |-> NotRun]
    /\ RollUpIdle /\ OverdueIdle /\ AggIdle /\ FnIdle

NextWindow ==
    \/ handleMonthChange
    \/ SummaryEffect
    \/ ReportEffectRev1
    \/ ReportEffectRev2

SpecWindow == InitWindow /\ [][NextWindow]_vars

\* The statistics windows computed so far: AnalyticsReport's TimeFrameStats.
ReportWindows ==
    (IF wOut.report1 = NotRun THEN {}
     ELSE {wOut.report1[1].weekly, wOut.report1[1].monthly, wOut.report1[1].yearly}
          \cup {wOut.report1[1].daily[d] : d \in 1..7})
    \cup
    (IF wOut.report2 = NotRun THEN {}
     ELSE {wOut.report2[1].today, wOut.report2[1].weekly, wOut.report2[1].monthly}
          \cup {wOut.report2[1].daily[d] : d \in 1..7})

\* AnalyticsSummary's MonthlyStats computed so far.
SummaryWindows ==
    IF wOut.summary = NotRun THEN {}
    ELSE {wOut.summary[1].current, wOut.summary[1].previous}

\* p is round(100*c/t), halves up.
IsRounded(p, c, t) == 200 * c - t < 2 * t * p /\ 2 * t * p <= 200 * c + t

CreatedWithin(from, to) ==
    Cardinality({i \in 1..Len(wTasks) :
                    /\ wTasks[i].createdAt # NoDate
                    /\ from <= wTasks[i].createdAt[1]
                    /\ wTasks[i].createdAt[1] <= to})

\* C5: every window's total is the number of tasks created between the window's
\* start and its end, both inclusive (the calendar month ends with the last
\* instant of its last day), whatever their start time or progress update time.
C5_TotalByCreation ==
    /\ wOut.summary # NotRun =>
          wOut.summary[1].current.total =
              CreatedWithin(MkDate(getFullYear(wSelected), getMonth(wSelected), 1, 0),
                            MkDate(getFullYear(wSelected), getMonth(wSelected) + 1, 1, 0) - 1)
    /\ wOut.report1 # NotRun =>
          /\ wOut.report1[1].weekly.total = CreatedWithin(SubDays(wNow, 7), wNow)
          /\ wOut.report1[1].monthly.total = CreatedWithin(SetMonthBack(wNow), wNow)
          /\ wOut.report1[1].yearly.total = CreatedWithin(SetYearBack(wNow), wNow)
    /\ wOut.report2 # NotRun =>
          /\ wOut.report2[1].weekly.total = CreatedWithin(SubDays(wNow, 7), wNow)
          /\ wOut.report2[1].monthly.total = CreatedWithin(SetMonthBack(wNow), wNow)

\* C6: the growth rate is (A - B) / B * 100 for the current rate A and the
\* previous rate B when B > 0, and 0 when B == 0; its denominator is never 0.
C6_GrowthRate ==
    wOut.summary # NotRun =>
        LET A == wOut.summary[1].current.completionRate
            B == wOut.summary[1].previous.completionRate
            g == wOut.summary[1].growthRate
        IN  /\ g[2] # 0
            /\ IF B[1] * B[2] > 0
               THEN g[1] * A[2] * B[1] = g[2] * 100 * (A[1] * B[2] - B[1] * A[2])
               ELSE g[1] = 0

\* C6 witness: the previous month at 50 (one of two completed), the current
\* month at 100, growth 100.
C6_FiftyToHundred ==
    /\ wOut.summary # NotRun
    /\ wOut.summary[1].previous.total = 2
    /\ wOut.summary[1].previous.completed = 1
    /\ wOut.summary[1].current.total = 1
    /\ wOut.summary[1].current.completed = 1
    /\ wOut.summary[1].growthRate[1] = 100 * wOut.summary[1].growthRate[2]

InitAgg ==
    /\ StoreEmpty \/ \E n \in InitChildCounts : StoreWithChildren(n)
    /\ ClientsIdle
    /\ RollUpIdle /\ WindowIdle /\ OverdueIdle /\ FnIdle

NextAgg ==
    \/ Tick
    \/ saveTaskWithLevelCreate
    \/ createChildTaskValidate
    \/ createChildTaskAdd
    \/ createChildTaskUpdateParent
    \/ updateTaskProgress
    \/ getMultipleAggregatedTasks
    \/ AggGetTaskById
    \/ AggGetTaskProgress
    \/ AggGetChildTasks
    \/ AggGetMultipleTaskProgress
    \/ AggSettle

SpecAgg == InitAgg /\ [][NextAgg]_vars

\* C8: a settled getMultipleAggregatedTasks call that no write overlapped has
\* resolved, with exactly one AggregatedTask per requested id that exists in the
\* task store, in request order, and nothing for the ids that do not exist.
C8_OnePerExistingId ==
    (batch.status \in {"resolved", "rejected"} /\ batch.clean) =>
        /\ batch.status = "resolved"
        /\ [k \in 1..Len(batch.out) |-> batch.out[k].id]
               = SelectSeq(batch.ids, LAMBDA id : id \in batch.existed)

\* C9: two successive getAggregatedTask calls for the same id, with no write to
\* the task, child or progress stores from the start of the first to the end of
\* the second, end the same way with equal results.
C9_SuccessiveCallsEqual ==
    \A id \in QueryIds :
        (prevDone[id] # <<>> /\ lastDone[id] # <<>>) => prevDone[id] = lastDone[id]

C9_TwiceWithChildren ==
    /\ prevDone[1] # <<>> /\ lastDone[1] # <<>>
    /\ lastDone[1][1].pc = "fulfilled" /\ lastDone[1][1].out # <<>>
    /\ LET task == lastDone[1][1].out[1]
       IN  /\ task.progress.present
           /\ \E k \in 1..Len(task.children.items) :
                  task.children.items[k].progress.present
    /\ clock > 0

\* C10: every "in" query getMultipleTaskProgress sends carries at most
\* BatchLimit identifiers, and no getAggregatedTask call fails on its children's
\* progress lookup.
C10_QueryAtMostTen ==
    /\ inQuery # <<>> => inQuery[1] <= BatchLimit
    /\ \A i \in DOMAIN calls : calls[i].pc # "rejected"

(***************************************************************************)
(* A task without progress record next to the same task with a NOT_STARTED *)
(* record, through every consumer of progress.                             *)
(***************************************************************************)
MaxTwinChildren == 2

TwinNow == MkDate(1, 3, 10, 0)
TwinStampChoices == {MkDate(1, 2, 14, 0), MkDate(1, 3, 9, 1)}
TwinEndChoices == {NoDate, <<MkDate(1, 3, 9, 0)>>, <<MkDate(1, 3, 12, 0)>>}

\* the aggregated task whose own progress record is absent
TwinInputs ==
    {[task |-> [createdAt |-> <<c>>, startTime |-> s, endTime |-> e,
                progress |-> NoProgress,
                children |-> ArrayOf([k \in 1..Len(kids) |-> RollUpChild(kids[k])])],
      stamp |-> u, now |-> TwinNow] :
        c \in {x \in CreatedChoices : x <= TwinNow}, s \in StartChoices,
        e \in TwinEndChoices, u \in TwinStampChoices,
        kids \in SeqsUpTo({NoStatus, NOT_STARTED, COMPLETED}, MaxTwinChildren)}

\* the same task after updateTaskProgress(id, NOT_STARTED) at time stamp, for
\* itself and for each child without record
withNotStarted(task, stamp) ==
    LET started(p) == IF p.present THEN p ELSE mapTaskProgress(NOT_STARTED, stamp)
    IN  [task EXCEPT
            !.progress = started(task.progress),
            !.children = ArrayOf([k \in 1..Len(task.children.items) |->
                [task.children.items[k] EXCEPT
                    !.progress = started(task.children.items[k].progress)]])]

\* TaskList.sortedTasks filter on the loaded status
TaskListActive(progress) ==
    LoadedStatus(progress) # CANCELLED /\ LoadedStatus(progress) # COMPLETED

\* CalendarPage.loadTasks filter: !status || (status !== COMPLETED && status !== CANCELLED)
CalendarShown(progress) ==
    LET status == IF progress.present THEN progress.status ELSE NoStatus
    IN  status = NoStatus \/ (status # COMPLETED /\ status # CANCELLED)

rollUpOf(task) ==
    [task |-> calculateTaskProgress(task),
     rev1 |-> calculateProgressRev1(task),
     rev2 |-> calculateProgressRev2(task)]

windowsOf(task, now) ==
    [summary |-> summaryStats(now, <<task>>, now),
     report1 |-> reportStatsRev1(<<task>>, now),
     report2 |-> reportStatsRev2(<<task>>, now)]

overdueOf(task, now) ==
    [summary |-> SummaryOverdue(task, now),
     habits |-> HabitsOverdue(task, now),
     chatbot |-> ChatBotOverdue(task, now),
     tasklist |-> TaskListOverdue([item |-> [end_time |-> task.endTime],
                                   progress |-> task.progress], now),
     dataanalytics |-> DataAnalyticsOverdue([end_time |-> task.endTime], now)]

TwinConsumers == {"rollup", "windows", "overdue", "tasklist", "calendar"}

Twin == withNotStarted(fnArg.task, fnArg.stamp)

RunTwinRollUp ==
    /\ fnRes.rollup = NotRun
    /\ fnRes' = [fnRes EXCEPT !.rollup =
                    <<[absent |-> rollUpOf(fnArg.task), notStarted |-> rollUpOf(Twin)]>>]
    /\ UNCHANGED <<fnArg, ruVars, wVars, odVars, aggVars>>

RunTwinWindows ==
    /\ fnRes.windows = NotRun
    /\ fnRes' = [fnRes EXCEPT !.windows =
                    <<[absent |-> windowsOf(fnArg.task, fnArg.now),
                       notStarted |-> windowsOf(Twin, fnArg.now)]>>]
    /\ UNCHANGED <<fnArg, ruVars, wVars, odVars, aggVars>>

RunTwinOverdue ==
    /\ fnRes.overdue = NotRun
    /\ fnRes' = [fnRes EXCEPT !.overdue =
                    <<[absent |-> overdueOf(fnArg.task, fnArg.now),
                       notStarted |-> overdueOf(Twin, fnArg.now)]>>]
    /\ UNCHANGED <<fnArg, ruVars, wVars, odVars, aggVars>>

RunTwinTaskList ==
    /\ fnRes.tasklist = NotRun
    /\ fnRes' = [fnRes EXCEPT !.tasklist =
                    <<[absent |-> TaskListActive(fnArg.task.progress),
                       notStarted |-> TaskListActive(Twin.progress)]>>]
    /\ UNCHANGED <<fnArg, ruVars, wVars, odVars, aggVars>>

RunTwinCalendar ==
    /\ fnRes.calendar = NotRun
    /\ fnRes' = [fnRes EXCEPT !.calendar =
                    <<[absent |-> CalendarShown(fnArg.task.progress),
                       notStarted |-> CalendarShown(Twin.progress)]>>]
    /\ UNCHANGED <<fnArg, ruVars, wVars, odVars, aggVars>>

InitTwin ==
    /\ fnArg \in TwinInputs
    /\ fnRes = [c \in TwinConsumers |-> NotRun]
    /\ RollUpIdle /\ WindowIdle /\ OverdueIdle /\ AggIdle

NextTwin ==
    \/ RunTwinRollUp
    \/ RunTwinWindows
    \/ RunTwinOverdue
    \/ RunTwinTaskList
    \/ RunTwinCalendar

SpecTwin == InitTwin /\ [][NextTwin]_vars

\* C11: every consumer (roll-up, window statistics, overdue classification, the
\* TaskList filter, the calendar filter) gives the same result for a task without
\* progress record and for the same task with a NOT_STARTED record.
C11_AbsentAsNotStarted ==
    \A c \in TwinConsumers :
        fnRes[c] # NotRun => fnRes[c][1].absent = fnRes[c][1].notStarted

(***************************************************************************)
(* The writers of the store, interleaved.                                  *)
(***************************************************************************)
StoreChildCounts == {1}

InitStore ==
    /\ StoreEmpty \/ \E n \in StoreChildCounts : StoreWithChildren(n)
    /\ ClientsIdle
    /\ RollUpIdle /\ WindowIdle /\ OverdueIdle /\ FnIdle

NextStore ==
    \/ Tick
    \/ saveTaskWithLevelCreate
    \/ saveTaskWithLevelRead
    \/ saveTaskWithLevelCommit
    \/ createChildTaskValidate
    \/ createChildTaskAdd
    \/ createChildTaskUpdateParent
    \/ deleteChildTaskRead
    \/ deleteChildTaskCommit
    \/ deleteTaskRead
    \/ deleteTaskChildLevels
    \/ deleteTaskMainLevels
    \/ deleteTaskCommit
    \/ updateTaskProgress

SpecStore == InitStore /\ [][NextStore]_vars

(***************************************************************************)
(* getAggregatedTask next to the writers of the child-id list and of the   *)
(* child documents.                                                        *)
(***************************************************************************)
InitJoin == InitStore

NextJoin ==
    \/ createChildTaskValidate
    \/ createChildTaskAdd
    \/ createChildTaskUpdateParent
    \/ deleteChildTaskRead
    \/ deleteChildTaskCommit
    \/ getMultipleAggregatedTasks
    \/ AggGetTaskById
    \/ AggGetTaskProgress
    \/ AggGetChildTasks
    \/ AggGetMultipleTaskProgress
    \/ AggSettle

SpecJoin == InitJoin /\ [][NextJoin]_vars

\* no writer is between two of its store operations
Quiescent ==
    /\ creator.pc = "idle" /\ remover.pc = "idle" /\ saver.pc = "idle"
    /\ deleter.pc \in {"idle", "done"}

\* C13: once every createChildTask, deleteChildTask, saveTaskWithLevel and
\* deleteTask call has finished, each child task's parent_id names an existing
\* task with the same user_id.
C13_NoOrphanChild ==
    Quiescent =>
        \A c \in DOMAIN taskChild :
            /\ taskChild[c].parent_id \in DOMAIN tasks
            /\ tasks[taskChild[c].parent_id].user_id = taskChild[c].user_id

\* C14: when deleteTask(t) completes, the store holds neither task t, nor a child
\* task of t, nor a progress record of t or of a child of t.
C14_DeleteCascades ==
    deleter.pc = "done" =>
        /\ ~deleter.left.task
        /\ deleter.left.children = {}
        /\ deleter.left.progress = {}

\* C12: an AggregatedTask returned by getAggregatedTask has no children exactly
\* when the child-id list of the task it was built from is empty or absent.
C12_ChildrenIffChildIds ==
    \A i \in DOMAIN calls :
        (calls[i].pc = "fulfilled" /\ calls[i].out # <<>> /\ calls[i].clean) =>
            (Len(calls[i].out[1].children.items) = 0
                <=> Len(itemsOrEmpty(calls[i].source)) = 0)


(***************************************************************************)
(* Consumers of the level of a task.                                       *)
(***************************************************************************)
MaxLevelTasks == 2

NoLevel == <<>>

\* JS `level || dflt`: undefined, null and 0 give dflt
orElse(level, dflt) == IF level = NoLevel \/ level[1] = 0 THEN dflt ELSE level[1]

\* [...list].sort(cmp) as a permutation of 1..n; cmp[i, j] is the number the
\* comparator returns for (list[i], list[j]), NaN counted as 0.  The sort is stable.
RECURSIVE insertInto(_, _, _)
insertInto(sorted, x, cmp) ==
    IF sorted = <<>> THEN <<x>>
    ELSE IF cmp[sorted[Len(sorted)], x] > 0
         THEN Append(insertInto(SubSeq(sorted, 1, Len(sorted) - 1), x, cmp),
                     sorted[Len(sorted)])
         ELSE Append(sorted, x)

RECURSIVE sort(_, _)
sort(n, cmp) == IF n = 0 THEN <<>> ELSE insertInto(sort(n - 1, cmp), n, cmp)

\* a.end_time?.getTime() || dflt, compared by subtraction; dflt is Infinity (TaskList)
\* or 0 (TaskDetailModal); Infinity - Infinity is NaN
endTimeCompare(a, b, missingLast) ==
    IF a.end_time = NoDate /\ b.end_time = NoDate THEN 0
    ELSE IF a.end_time = NoDate THEN (IF missingLast THEN 1 ELSE -1)
    ELSE IF b.end_time = NoDate THEN (IF missingLast THEN -1 ELSE 1)
    ELSE a.end_time[1] - b.end_time[1]

\* TaskList.sortedTasks comparator
TaskListCompare(a, b) ==
    IF a.level # b.level THEN orElse(a.level, 5) - orElse(b.level, 5)
    ELSE endTimeCompare(a, b, TRUE)

\* TaskList.sortedTasks: the positions of the active tasks, sorted
sortedTasks(list) ==
    LET active == SelectSeq([k \in 1..Len(list) |-> k],
                            LAMBDA k : list[k].status # CANCELLED /\ list[k].status # COMPLETED)
        cmp == [i \in 1..Len(active), j \in 1..Len(active) |->
                    TaskListCompare(list[active[i]], list[active[j]])]
        order == sort(Len(active), cmp)
    IN  [k \in 1..Len(active) |-> active[order[k]]]

\* TaskDetailModal.sortedChildTasks: active first, then by level, then by end time
sortedChildTasks(list) ==
    LET rank(t) == IF t.status = CANCELLED THEN 1 ELSE 0
        compare(a, b) ==
            IF rank(a) # rank(b) THEN rank(a) - rank(b)
            ELSE IF a.level # b.level THEN orElse(a.level, 5) - orElse(b.level, 5)
            ELSE endTimeCompare(a, b, FALSE)
        cmp == [i \in 1..Len(list), j \in 1..Len(list) |-> compare(list[i], list[j])]
    IN  sort(Len(list), cmp)

\* number of the tasks of list at each level, `task.level || dflt`
Tally(list, dflt) ==
    [level \in 0..5 |->
        Cardinality({k \in 1..Len(list) : orElse(list[k].level, dflt) = level})]

\* AnalyticsHabits: tasksByLevel[task.level || 5].total
tasksByLevel(list) == Tally(list, 5)

\* ChatBot: levelsSum = sum of (task.level || 5)
RECURSIVE levelsSum(_)
levelsSum(list) ==
    IF list = <<>> THEN 0 ELSE orElse(Head(list).level, 5) + levelsSum(Tail(list))

\* Mutant: the level factor counted from 5.
levelFactorFromFive(t) == 5 - orElse(t.level, 3)

\* DataAnalyticsPage: levelFactor = (6 - (t.level || 3)) / 5, in fifths
levelFactor(t) == 6 - orElse(t.level, 3)

\* DataAnalyticsPage: levelStats[t.level || 0]
levelStats(list) == Tally(list, 0)

LevelValues == {NoLevel, <<1>>, <<3>>, <<5>>}
LevelEndChoices == {NoDate, <<MkDate(1, 3, 9, 0)>>, <<MkDate(1, 3, 12, 0)>>}

LevelItems ==
    {[level |-> l, end_time |-> e, status |-> st] :
        l \in LevelValues, e \in LevelEndChoices, st \in {NOT_STARTED, CANCELLED}}

LevelInputs == SeqsUpTo(LevelItems, MaxLevelTasks)

\* the same tasks with every unset level stored as 5
withLevelFive(list) ==
    [k \in 1..Len(list) |->
        IF list[k].level = NoLevel THEN [list[k] EXCEPT !.level = <<5>>] ELSE list[k]]

LevelConsumers == {"tasklist", "detail", "habits", "chatbot", "urgency", "distribution"}

RunLevelTaskList ==
    /\ fnRes.tasklist = NotRun
    /\ fnRes' = [fnRes EXCEPT !.tasklist =
                    <<[unset |-> sortedTasks(fnArg),
                       five |-> sortedTasks(withLevelFive(fnArg))]>>]
    /\ UNCHANGED <<fnArg, ruVars, wVars, odVars, aggVars>>

RunLevelDetail ==
    /\ fnRes.detail = NotRun
    /\ fnRes' = [fnRes EXCEPT !.detail =
                    <<[unset |-> sortedChildTasks(fnArg),
                       five |-> sortedChildTasks(withLevelFive(fnArg))]>>]
    /\ UNCHANGED <<fnArg, ruVars, wVars, odVars, aggVars>>

RunLevelHabits ==
    /\ fnRes.habits = NotRun
    /\ fnRes' = [fnRes EXCEPT !.habits =
                    <<[unset |-> tasksByLevel(fnArg),
                       five |-> tasksByLevel(withLevelFive(fnArg))]>>]
    /\ UNCHANGED <<fnArg, ruVars, wVars, odVars, aggVars>>

RunLevelChatBot ==
    /\ fnRes.chatbot = NotRun
    /\ fnRes' = [fnRes EXCEPT !.chatbot =
                    <<[unset |-> levelsSum(fnArg),
                       five |-> levelsSum(withLevelFive(fnArg))]>>]
    /\ UNCHANGED <<fnArg, ruVars, wVars, odVars, aggVars>>

RunLevelUrgency ==
    /\ fnRes.urgency = NotRun
    /\ fnRes' = [fnRes EXCEPT !.urgency =
                    <<[unset |-> [k \in 1..Len(fnArg) |-> levelFactor(fnArg[k])],
                       five |-> [k \in 1..Len(fnArg) |-> levelFactor(withLevelFive(fnArg)[k])]]>>]
    /\ UNCHANGED <<fnArg, ruVars, wVars, odVars, aggVars>>

RunLevelDistribution ==
    /\ fnRes.distribution = NotRun
    /\ fnRes' = [fnRes EXCEPT !.distribution =
                    <<[unset |-> levelStats(fnArg),
                       five |-> levelStats(withLevelFive(fnArg))]>>]
    /\ UNCHANGED <<fnArg, ruVars, wVars, odVars, aggVars>>

InitLevel ==
    /\ fnArg \in LevelInputs
    /\ fnRes = [c \in LevelConsumers |-> NotRun]
    /\ RollUpIdle /\ WindowIdle /\ OverdueIdle /\ AggIdle

NextLevel ==
    \/ RunLevelTaskList
    \/ RunLevelDetail
    \/ RunLevelHabits
    \/ RunLevelChatBot
    \/ RunLevelUrgency
    \/ RunLevelDistribution

SpecLevel == InitLevel /\ [][NextLevel]_vars

\* C15: every consumer that needs a numeric level (the TaskList and TaskDetailModal
\* comparators, the AnalyticsHabits and ChatBot tallies, the urgency level factor
\* and the level distribution of DataAnalyticsPage) gives for a task without
\* level the result it gives for the same task with level 5.
C15_UnsetLevelIsFive ==
    \A c \in LevelConsumers :
        fnRes[c] # NotRun => fnRes[c][1].unset = fnRes[c][1].five

\* C15, the tallies of AnalyticsHabits and ChatBot: these use 5.
C15_TalliesUseFive ==
    \A c \in {"habits", "chatbot"} :
        fnRes[c] # NotRun => fnRes[c][1].unset = fnRes[c][1].five


(***************************************************************************)
(* DataAnalyticsPage: enrichment, urgency score, recommendation lists.     *)
(***************************************************************************)
MaxUrgencyTasks == 2

RatAdd(a, b) == <<a[1] * b[2] + b[1] * a[2], a[2] * b[2]>>
RatMul(a, b) == <<a[1] * b[1], a[2] * b[2]>>
\* a - b for denominators > 0, as a sign
RatCompare(a, b) == a[1] * b[2] - b[1] * a[2]

Max(a, b) == IF a >= b THEN a ELSE b

\* date-fns differenceInDays(left, right): full days between, truncated toward zero
differenceInDays(left, right) ==
    IF left >= right THEN (left - right) \div TicksPerDay
    ELSE 0 - ((right - left) \div TicksPerDay)

\* urgencyScore = (daysFactor * 0.7) + (levelFactor * 0.3), as a fraction
urgencyScore(t, ddl, isCompleted, daysUntilDeadline) ==
    IF ddl # NoDate /\ ~isCompleted
    THEN LET daysFactor == Rat(Max(0, 10 - daysUntilDeadline), 10)
             level == Rat(levelFactor(t), 5)
         IN  RatAdd(RatMul(daysFactor, Rat(7, 10)), RatMul(level, Rat(3, 10)))
    ELSE RatZero

\* enriched: tasks.map(...); daysUntilDeadline is Infinity without deadline,
\* kept here as NoDate
enrich(t, now) ==
    LET en == t.end_time
        ddl == readDeadline(t)
        days == IF ddl # NoDate THEN <<differenceInDays(ddl[1], now)>> ELSE NoDate
        isCompleted == en # NoDate
    IN  [level |-> t.level, en |-> en, ddl |-> ddl,
         daysUntilDeadline |-> days,
         isOverdue |-> IF ddl # NoDate THEN now > ddl[1] /\ en = NoDate ELSE FALSE,
         isCompleted |-> isCompleted,
         urgencyScore |-> urgencyScore(t, ddl, isCompleted,
                                       IF days = NoDate THEN 0 ELSE days[1])]

enriched(list, now) == [k \in 1..Len(list) |-> enrich(list[k], now)]

\* list[order[1]], list[order[2]], ... cut to the first `count` (slice(0, count))
Sliced(list, order, count) ==
    [k \in 1..(IF Len(order) < count THEN Len(order) ELSE count) |-> list[order[k]]]

\* urgentTasks: filter(!isCompleted && !isOverdue).sort(b.urgencyScore - a.urgencyScore).slice(0, 8)
urgentTasks(rich) ==
    LET kept == SelectSeq(rich, LAMBDA t : ~t.isCompleted /\ ~t.isOverdue)
        cmp == [i \in 1..Len(kept), j \in 1..Len(kept) |->
                    RatCompare(kept[j].urgencyScore, kept[i].urgencyScore)]
    IN  Sliced(kept, sort(Len(kept), cmp), 8)

\* overdueTasks: filter(isOverdue).sort(a.daysUntilDeadline - b.daysUntilDeadline).slice(0, 5)
overdueTasks(rich) ==
    LET kept == SelectSeq(rich, LAMBDA t : t.isOverdue)
        cmp == [i \in 1..Len(kept), j \in 1..Len(kept) |->
                    kept[i].daysUntilDeadline[1] - kept[j].daysUntilDeadline[1]]
    IN  Sliced(kept, sort(Len(kept), cmp), 5)

\* 2026-04-10 00:00
UrgencyNow == MkDate(1, 3, 10, 0)

\* deadlines: 2 days before now less a tick, a day before, in 2 days, in 2 days
\* and a tick, in 12 days
DeadlineChoices ==
    {UrgencyNow - 2 * TicksPerDay + 1, UrgencyNow - TicksPerDay,
     UrgencyNow + 2 * TicksPerDay, UrgencyNow + 2 * TicksPerDay + 1,
     UrgencyNow + 12 * TicksPerDay}

UrgencyLevels == {NoLevel, <<1>>, <<5>>}
UrgencyEndChoices == {NoDate, <<MkDate(1, 3, 9, 0)>>}

\* the task items readDeadline accepts: without deadline field, as
\* getTasksWithLevelsByUser builds them, and with a due_date
UrgencyItems ==
    {[level |-> l, end_time |-> e] : l \in UrgencyLevels, e \in UrgencyEndChoices}
    \cup {[level |-> l, end_time |-> e, due_date |-> <<ddl>>] :
            l \in UrgencyLevels, e \in UrgencyEndChoices, ddl \in DeadlineChoices}

UrgencyInputs == SeqsUpTo(UrgencyItems, MaxUrgencyTasks)

RunEnriched ==
    /\ fnRes.enriched = NotRun
    /\ fnRes' = [fnRes EXCEPT !.enriched = <<enriched(fnArg, UrgencyNow)>>]
    /\ UNCHANGED <<fnArg, ruVars, wVars, odVars, aggVars>>

RunUrgentTasks ==
    /\ fnRes.enriched # NotRun
    /\ fnRes.urgentTasks = NotRun
    /\ fnRes' = [fnRes EXCEPT !.urgentTasks = <<urgentTasks(fnRes.enriched[1])>>]
    /\ UNCHANGED <<fnArg, ruVars, wVars, odVars, aggVars>>

RunOverdueTasks ==
    /\ fnRes.enriched # NotRun
    /\ fnRes.overdueTasks = NotRun
    /\ fnRes' = [fnRes EXCEPT !.overdueTasks = <<overdueTasks(fnRes.enriched[1])>>]
    /\ UNCHANGED <<fnArg, ruVars, wVars, odVars, aggVars>>

InitUrgency ==
    /\ fnArg \in UrgencyInputs
    /\ fnRes = [enriched |-> NotRun, urgentTasks |-> NotRun, overdueTasks |-> NotRun]
    /\ RollUpIdle /\ WindowIdle /\ OverdueIdle /\ AggIdle

NextUrgency ==
    \/ RunEnriched
    \/ RunUrgentTasks
    \/ RunOverdueTasks

SpecUrgency == InitUrgency /\ [][NextUrgency]_vars

\* the enriched tasks, once computed
Enriched == IF fnRes.enriched = NotRun THEN <<>> ELSE fnRes.enriched[1]

\* whole days from now until the deadline of an enriched task that is not overdue
WholeDays(e) == (e.ddl[1] - UrgencyNow) \div TicksPerDay

C17_ZeroWithoutDeadlineOrCompleted ==
    \A k \in 1..Len(Enriched) :
        /\ (Enriched[k].ddl = NoDate \/ Enriched[k].en # NoDate) =>
                Enriched[k].urgencyScore[1] = 0
        /\ RatCompare(Enriched[k].urgencyScore, RatZero) >= 0

\* C18: urgentTasks holds only tasks with a deadline that are neither completed
\* nor overdue, in non-increasing score order; an overdue task is only in
\* overdueTasks, which is in ascending deadline order.
C18_UrgentAndOverdueLists ==
    /\ fnRes.urgentTasks # NotRun =>
        LET u == fnRes.urgentTasks[1]
        IN  /\ \A k \in 1..Len(u) :
                    u[k].ddl # NoDate /\ ~u[k].isCompleted /\ ~u[k].isOverdue
            /\ \A k \in 1..(Len(u) - 1) :
                    RatCompare(u[k].urgencyScore, u[k + 1].urgencyScore) >= 0
    /\ fnRes.overdueTasks # NotRun =>
        LET o == fnRes.overdueTasks[1]
        IN  /\ \A k \in 1..Len(o) : o[k].isOverdue
            /\ \A k \in 1..(Len(o) - 1) : o[k].ddl[1] <= o[k + 1].ddl[1]

\* C18, the ordering of urgentTasks and the separation of the two lists hold.
C18_ScoreOrderAndSeparation ==
    /\ fnRes.urgentTasks # NotRun =>
        LET u == fnRes.urgentTasks[1]
        IN  /\ \A k \in 1..Len(u) : ~u[k].isCompleted /\ ~u[k].isOverdue
            /\ \A k \in 1..(Len(u) - 1) :
                    RatCompare(u[k].urgencyScore, u[k + 1].urgencyScore) >= 0
    /\ fnRes.overdueTasks # NotRun =>
        \A k \in 1..Len(fnRes.overdueTasks[1]) : fnRes.overdueTasks[1][k].isOverdue


(***************************************************************************)
(* DataAnalyticsPage.categorizeTask.  A text is a sequence of characters   *)
(* (UTF-16 code units): an ASCII character is written as itself, any other *)
(* as "U+" and its code, "U+1ECD" for the o with dot below of "hoc".       *)
(***************************************************************************)
MaxNameWords == 2

UpperLetters ==
    <<"A", "B", "C", "D", "E", "F", "G", "H", "I", "J", "K", "L", "M", "N", "O", "P",
      "Q", "R", "S", "T", "U", "V", "W", "X", "Y", "Z", "U+1ECC", "U+1EAC", "U+00CC">>
LowerLetters ==
    <<"a", "b", "c", "d", "e", "f", "g", "h", "i", "j", "k", "l", "m", "n", "o", "p",
      "q", "r", "s", "t", "u", "v", "w", "x", "y", "z", "U+1ECD", "U+1EAD", "U+00EC">>

\* the lower-case letter of each upper-case letter
LowerCaseOf ==
    [c \in {UpperLetters[i] : i \in 1..Len(UpperLetters)} |->
        LowerLetters[CHOOSE i \in 1..Len(UpperLetters) : UpperLetters[i] = c]]

\* String.prototype.toLowerCase, on the letters above
toLowerCase(text) ==
    [k \in 1..Len(text) |->
        IF text[k] \in DOMAIN LowerCaseOf THEN LowerCaseOf[text[k]] ELSE text[k]]

\* String.prototype.includes
includes(text, word) ==
    \E i \in 1..(Len(text) - Len(word) + 1) : SubSeq(text, i, i + Len(word) - 1) = word

\* `${task.task_name} ${task.task_detail || ''}`
textOf(task) == task.task_name \o <<" ">> \o task.task_detail
\* Mutant: the text is not lowered before the search.
categorizeTaskCaseSensitive(task) ==
    LET text == textOf(task)
    IN  IF includes(text, <<"m", "e", "e", "t", "i", "n", "g">>)
              \/ includes(text, <<"h", "U+1ECD", "p">>)
              \/ includes(text, <<"c", "a", "l", "l">>)
              \/ includes(text, <<"g", "U+1ECD", "i">>)
        THEN "Meetings"
        ELSE IF includes(text, <<"c", "o", "d", "e">>)
              \/ includes(text, <<"d", "e", "v", "e", "l", "o", "p">>)
              \/ includes(text, <<"b", "u", "g">>)
              \/ includes(text, <<"l", "U+1EAD", "p", " ", "t", "r", "U+00EC", "n", "h">>)
        THEN "Development"
        ELSE IF includes(text, <<"d", "e", "s", "i", "g", "n">>)
              \/ includes(text, <<"u", "i">>)
              \/ includes(text, <<"u", "x">>)
              \/ includes(text, <<"t", "h", "i", "U+1EBF", "t", " ", "k", "U+1EBF">>)
        THEN "Design"
        ELSE IF includes(text, <<"e", "m", "a", "i", "l">>)
              \/ includes(text, <<"r", "e", "p", "o", "r", "t">>)
              \/ includes(text, <<"b", "U+00E1", "o", " ", "c", "U+00E1", "o">>)
              \/ includes(text, <<"d", "o", "c", "u", "m", "e", "n", "t">>)
        THEN "Communication"
        ELSE IF includes(text, <<"l", "e", "a", "r", "n">>)
              \/ includes(text, <<"s", "t", "u", "d", "y">>)
              \/ includes(text, <<"r", "e", "s", "e", "a", "r", "c", "h">>)
              \/ includes(text, <<"h", "U+1ECD", "c">>)
        THEN "Learning"
        ELSE IF includes(text, <<"t", "e", "s", "t">>)
              \/ includes(text, <<"q", "a">>)
              \/ includes(text, <<"k", "i", "U+1EC3", "m", " ", "t", "r", "a">>)
        THEN "Testing"
        ELSE IF includes(text, <<"r", "e", "v", "i", "e", "w">>)
              \/ includes(text, <<"U+0111", "U+00E1", "n", "h", " ", "g", "i", "U+00E1">>)
              \/ includes(text, <<"f", "e", "e", "d", "b", "a", "c", "k">>)
        THEN "Review"
        ELSE "Other"

\* categorizeTask: the first keyword group that matches, else Other
categorizeTask(task) ==
    LET text == toLowerCase(textOf(task))
    IN  IF includes(text, <<"m", "e", "e", "t", "i", "n", "g">>)
              \/ includes(text, <<"h", "U+1ECD", "p">>)
              \/ includes(text, <<"c", "a", "l", "l">>)
              \/ includes(text, <<"g", "U+1ECD", "i">>)
        THEN "Meetings"
        ELSE IF includes(text, <<"c", "o", "d", "e">>)
              \/ includes(text, <<"d", "e", "v", "e", "l", "o", "p">>)
              \/ includes(text, <<"b", "u", "g">>)
              \/ includes(text, <<"l", "U+1EAD", "p", " ", "t", "r", "U+00EC", "n", "h">>)
        THEN "Development"
        ELSE IF includes(text, <<"d", "e", "s", "i", "g", "n">>)
              \/ includes(text, <<"u", "i">>)
              \/ includes(text, <<"u", "x">>)
              \/ includes(text, <<"t", "h", "i", "U+1EBF", "t", " ", "k", "U+1EBF">>)
        THEN "Design"
        ELSE IF includes(text, <<"e", "m", "a", "i", "l">>)
              \/ includes(text, <<"r", "e", "p", "o", "r", "t">>)
              \/ includes(text, <<"b", "U+00E1", "o", " ", "c", "U+00E1", "o">>)
              \/ includes(text, <<"d", "o", "c", "u", "m", "e", "n", "t">>)
        THEN "Communication"
        ELSE IF includes(text, <<"l", "e", "a", "r", "n">>)
              \/ includes(text, <<"s", "t", "u", "d", "y">>)
              \/ includes(text, <<"r", "e", "s", "e", "a", "r", "c", "h">>)
              \/ includes(text, <<"h", "U+1ECD", "c">>)
        THEN "Learning"
        ELSE IF includes(text, <<"t", "e", "s", "t">>)
              \/ includes(text, <<"q", "a">>)
              \/ includes(text, <<"k", "i", "U+1EC3", "m", " ", "t", "r", "a">>)
        THEN "Testing"
        ELSE IF includes(text, <<"r", "e", "v", "i", "e", "w">>)
              \/ includes(text, <<"U+0111", "U+00E1", "n", "h", " ", "g", "i", "U+00E1">>)
              \/ includes(text, <<"f", "e", "e", "d", "b", "a", "c", "k">>)
        THEN "Review"
        ELSE "Other"

\* the words task names and details are made of
CategoryWords ==
    {<<"M", "e", "e", "t", "i", "n", "g">>,
     <<"C", "O", "D", "E">>,
     <<"R", "e", "v", "i", "e", "w">>,
     <<"Q", "A">>,
     <<"b", "u", "i", "l", "d">>,
     <<"R", "e", "p", "o", "r", "t">>,
     <<"p", "l", "a", "n">>,
     <<"l", "U+1EAD", "p">>,
     <<"T", "R", "U+00CC", "N", "H">>,
     <<"H", "U+1ECC", "C">>}

\* the words of ws, separated by single spaces
RECURSIVE joinWords(_)
joinWords(ws) ==
    IF ws = <<>> THEN <<>>
    ELSE IF Len(ws) = 1 THEN ws[1]
    ELSE ws[1] \o <<" ">> \o joinWords(Tail(ws))

\* task_name is not empty; task_detail ?? "" is empty or one word
CategoryInputs ==
    {[task_name |-> joinWords(n), task_detail |-> joinWords(dt)] :
        n \in SeqsUpTo(CategoryWords, MaxNameWords) \ {<<>>},
        dt \in {<<>>} \cup {<<w>> : w \in CategoryWords}}

RunCategorizeTask ==
    /\ fnRes = NotRun
    /\ fnRes' = <<categorizeTask(fnArg)>>
    /\ UNCHANGED <<fnArg, ruVars, wVars, odVars, aggVars>>

InitCategory ==
    /\ fnArg \in CategoryInputs
    /\ fnRes = NotRun
    /\ RollUpIdle /\ WindowIdle /\ OverdueIdle /\ AggIdle

NextCategory == RunCategorizeTask

SpecCategory == InitCategory /\ [][NextCategory]_vars

\* the keyword groups in their scan order
KeywordGroups ==
    <<[category |-> "Meetings",
       words |-> {<<"m", "e", "e", "t", "i", "n", "g">>, <<"h", "U+1ECD", "p">>, <<"c", "a", "l", "l">>, <<"g", "U+1ECD", "i">>}],
      [category |-> "Development",
       words |-> {<<"c", "o", "d", "e">>, <<"d", "e", "v", "e", "l", "o", "p">>, <<"b", "u", "g">>, <<"l", "U+1EAD", "p", " ", "t", "r", "U+00EC", "n", "h">>}],
      [category |-> "Design",
       words |-> {<<"d", "e", "s", "i", "g", "n">>, <<"u", "i">>, <<"u", "x">>, <<"t", "h", "i", "U+1EBF", "t", " ", "k", "U+1EBF">>}],
      [category |-> "Communication",
       words |-> {<<"e", "m", "a", "i", "l">>, <<"r", "e", "p", "o", "r", "t">>, <<"b", "U+00E1", "o", " ", "c", "U+00E1", "o">>, <<"d", "o", "c", "u", "m", "e", "n", "t">>}],
      [category |-> "Learning",
       words |-> {<<"l", "e", "a", "r", "n">>, <<"s", "t", "u", "d", "y">>, <<"r", "e", "s", "e", "a", "r", "c", "h">>, <<"h", "U+1ECD", "c">>}],
      [category |-> "Testing",
       words |-> {<<"t", "e", "s", "t">>, <<"q", "a">>, <<"k", "i", "U+1EC3", "m", " ", "t", "r", "a">>}],
      [category |-> "Review",
       words |-> {<<"r", "e", "v", "i", "e", "w">>, <<"U+0111", "U+00E1", "n", "h", " ", "g", "i", "U+00E1">>, <<"f", "e", "e", "d", "b", "a", "c", "k">>}]>>

\* word occurs in text whatever the case of the letters of text
OccursIgnoringCase(text, word) ==
    \E i \in 1..(Len(text) - Len(word) + 1) :
        toLowerCase(SubSeq(text, i, i + Len(word) - 1)) = word

MatchingGroups(text) ==
    {g \in 1..Len(KeywordGroups) :
        \E w \in KeywordGroups[g].words : OccursIgnoringCase(text, w)}

\* C19: categorizeTask returns the category of the first group, in the order
\* Meetings, Development, Design, Communication, Learning, Testing, Review, one
\* of whose keywords occurs case-insensitively in name + ' ' + detail, and
\* 'Other' when no group has one.
C19_FirstMatchingGroup ==
    fnRes # NotRun =>
        LET text == fnArg.task_name \o <<" ">> \o fnArg.task_detail
            hits == MatchingGroups(text)
        IN  IF hits = {} THEN fnRes[1] = "Other"
            ELSE fnRes[1] = KeywordGroups[CHOOSE g \in hits : \A h \in hits : g <= h].category

\* C19 witness: "Review CODE" has keywords of Development and of Review and is
\* categorized Development.
C19_EarliestOfTwo ==
    /\ fnRes = <<"Development">>
    /\ fnArg.task_name = joinWords(<<<<"R", "e", "v", "i", "e", "w">>, <<"C", "O", "D", "E">>>>)
    /\ 7 \in MatchingGroups(fnArg.task_name)


(***************************************************************************)
(* generateTaskInsights: the remote strategy and its local fallback.       *)
(* A response text is a sequence of tokens: "{" and "}" are braces, "m" is *)
(* a member with a scalar value ("level": 1), "t" is prose.                *)
(***************************************************************************)
MaxResponseLen == 4

NoKey == <<>>
FALLBACK_MODE == "FALLBACK_MODE"

\* sessionStorage.getItem('gemini_api_key')
getApiKey(storage) == storage.gemini_api_key

\* isFallbackMode: getApiKey() === "FALLBACK_MODE"
isFallbackMode(storage) == getApiKey(storage) = <<FALLBACK_MODE>>

Threw == [threw |-> TRUE, value |-> <<>>]
Returned(v) == [threw |-> FALSE, value |-> <<v>>]

\* getModel: throws when !apiKey (null or "")
getModel(storage) ==
    IF getApiKey(storage) = NoKey \/ getApiKey(storage) = <<"">>
    THEN Threw
    ELSE Returned(getApiKey(storage)[1])

\* rate = stats.total > 0 ? (stats.completed / stats.total) * 100 : 0
rateOf(stats) == IF stats.total > 0 THEN Rat(stats.completed * 100, stats.total) ELSE RatZero

\* Mutant: the scan keeping the last of equal maxima.
RECURSIVE highestOfLast(_, _)
highestOfLast(rates, max) ==
    IF rates = <<>> THEN max
    ELSE highestOfLast(Tail(rates),
                       IF RatCompare(Head(rates).rate, max.rate) >= 0 THEN Head(rates)
                       ELSE max)

\* completionRates.reduce((max, current) => current.rate > max.rate ? current : max, ...)
RECURSIVE highestOf(_, _)
highestOf(rates, max) ==
    IF rates = <<>> THEN max
    ELSE highestOf(Tail(rates),
                   IF RatCompare(Head(rates).rate, max.rate) > 0 THEN Head(rates) ELSE max)

\* monthEntries.reduce((max, current) => current[1] > max[1] ? current : max, ...)
RECURSIVE busiestOf(_, _)
busiestOf(entries, max) ==
    IF entries = <<>> THEN max
    ELSE busiestOf(Tail(entries), IF Head(entries)[2] > max[2] THEN Head(entries) ELSE max)

\* monthEntries.reduce((min, current) => current[1] < min[1] ? current : min, ...)
RECURSIVE quietestOf(_, _)
quietestOf(entries, min) ==
    IF entries = <<>> THEN min
    ELSE quietestOf(Tail(entries), IF Head(entries)[2] < min[2] THEN Head(entries) ELSE min)

\* generateFallbackInsights; tasksByLevel and tasksByMonth are the entries of the
\* maps in Object.entries order; the sentences are templates over these values
generateFallbackInsights(data) ==
    LET completionRates == [k \in 1..Len(data.tasksByLevel) |->
                                [level |-> data.tasksByLevel[k].level,
                                 rate |-> rateOf(data.tasksByLevel[k])]]
        highest == highestOf(completionRates,
                             IF completionRates # <<>> THEN completionRates[1]
                             ELSE [level |-> 1, rate |-> RatZero])
        first == IF data.tasksByMonth # <<>> THEN data.tasksByMonth[1] ELSE <<"January", 0>>
    IN  [highestCompletionRate |-> highest,
         timePatterns |-> [busiestMonth |-> busiestOf(data.tasksByMonth, first)[1],
                           quietestMonth |-> quietestOf(data.tasksByMonth, first)[1]],
         urgencyAnalysis |-> [criticalTasks |-> data.urgentTasks],
         productivityTrends |->
            [overallTrend |-> IF data.completedTasks > data.overdueTasks
                              THEN "positive" ELSE "needs improvement"]]

\* text.match(/\{[\s\S]*\}/): from the first "{" to the last "}" after it
jsonMatch(text) ==
    LET opens == {i \in 1..Len(text) : text[i] = "{"}
        first == CHOOSE i \in opens : \A j \in opens : i <= j
        closes == {i \in 1..Len(text) : text[i] = "}" /\ i > first}
        last == CHOOSE i \in closes : \A j \in closes : i >= j
    IN  IF opens = {} THEN <<>>
        ELSE IF closes = {} THEN <<>>
        ELSE <<SubSeq(text, first, last)>>

\* braces open at the end of the first n tokens
RECURSIVE depthAt(_, _)
depthAt(text, n) ==
    IF n = 0 THEN 0
    ELSE depthAt(text, n - 1)
            + (IF text[n] = "{" THEN 1 ELSE IF text[n] = "}" THEN 0 - 1 ELSE 0)

\* JSON.parse accepts the text: one object, members and objects inside, no prose
parses(text) ==
    /\ Len(text) >= 2
    /\ text[1] = "{"
    /\ \A i \in 1..Len(text) : text[i] # "t"
    /\ \A n \in 1..(Len(text) - 1) : depthAt(text, n) > 0
    /\ depthAt(text, Len(text)) = 0

\* JSON.parse(jsonMatch[0])
JSONparse(text) == IF parses(text) THEN Returned(text) ELSE Threw

Local(data) == [strategy |-> "local", insights |-> <<generateFallbackInsights(data)>>,
                json |-> <<>>]
Remote(object) == [strategy |-> "remote", insights |-> <<>>, json |-> object]

Resolved(call, value) == [call EXCEPT !.pc = "resolved", !.out = <<value>>]
Rejected(call) == [call EXCEPT !.pc = "rejected"]

\* Mutant: the statement is outside the try block.
catchErrorMissing(call, outcome, data) ==
    IF outcome.threw THEN Rejected(call) ELSE Resolved(call, outcome.value[1])

\* try { ... return value } catch (error) { return generateFallbackInsights(data) }
catchError(call, outcome, data) ==
    IF outcome.threw THEN Resolved(call, Local(data)) ELSE Resolved(call, outcome.value[1])

\* the lines after await model.generateContent(prompt), inside the try block
afterGenerateContent(text, data) ==
    IF jsonMatch(text) # <<>>
    THEN LET parsed == JSONparse(jsonMatch(text)[1])
         IN  IF parsed.threw THEN Threw ELSE Returned(Remote(parsed.value[1]))
    ELSE Returned(Local(data))

KeyChoices == {"", FALLBACK_MODE, "AIza"}

InsightData ==
    {[tasksByLevel |-> l, tasksByMonth |-> m, urgentTasks |-> 1,
      completedTasks |-> c, overdueTasks |-> 1] :
        l \in {<<>>, <<[level |-> 1, total |-> 2, completed |-> 1],
                       [level |-> 5, total |-> 1, completed |-> 1]>>},
        m \in {<<>>, <<<<"March", 2>>, <<"April", 3>>>>},
        c \in {1, 2}}

ResponseTexts == SeqsUpTo({"{", "}", "m", "t"}, MaxResponseLen)

IdleCall == [pc |-> "idle", out |-> <<>>, key |-> NoKey, called |-> FALSE,
             response |-> Threw]

\* setApiKey
setApiKey ==
    \E k \in KeyChoices :
        /\ fnArg.storage.gemini_api_key # <<k>>
        /\ fnArg' = [fnArg EXCEPT !.storage.gemini_api_key = <<k>>]
        /\ UNCHANGED <<fnRes, ruVars, wVars, odVars, aggVars>>

\* clearApiKey
clearApiKey ==
    /\ fnArg.storage.gemini_api_key # NoKey
    /\ fnArg' = [fnArg EXCEPT !.storage.gemini_api_key = NoKey]
    /\ UNCHANGED <<fnRes, ruVars, wVars, odVars, aggVars>>

\* generateTaskInsights up to its return or to await model.generateContent(prompt)
generateTaskInsights ==
    /\ fnRes.pc = "idle"
    /\ LET call == [fnRes EXCEPT !.key = getApiKey(fnArg.storage)]
       IN  fnRes' = IF isFallbackMode(fnArg.storage)
                    THEN Resolved(call, Local(fnArg.data))
                    ELSE IF getModel(fnArg.storage).threw
                    THEN catchError(call, Threw, fnArg.data)
                    ELSE [call EXCEPT !.pc = "generateContent", !.called = TRUE]
    /\ UNCHANGED <<fnArg, ruVars, wVars, odVars, aggVars>>

\* model.generateContent rejects, or response.text() throws
generateContentFails ==
    /\ fnRes.pc = "generateContent"
    /\ fnRes' = catchError(fnRes, Threw, fnArg.data)
    /\ UNCHANGED <<fnArg, ruVars, wVars, odVars, aggVars>>

\* model.generateContent resolves with a text
generateContentResponds ==
    \E text \in ResponseTexts :
        /\ fnRes.pc = "generateContent"
        /\ fnRes' = catchError([fnRes EXCEPT !.response = Returned(text)],
                               afterGenerateContent(text, fnArg.data), fnArg.data)
        /\ UNCHANGED <<fnArg, ruVars, wVars, odVars, aggVars>>

InitInsights ==
    /\ fnArg \in {[storage |-> [gemini_api_key |-> NoKey], data |-> dt] : dt \in InsightData}
    /\ fnRes = IdleCall
    /\ RollUpIdle /\ WindowIdle /\ OverdueIdle /\ AggIdle

NextInsights ==
    \/ setApiKey
    \/ clearApiKey
    \/ generateTaskInsights
    \/ generateContentFails
    \/ generateContentResponds

SpecInsights == InitInsights /\ [][NextInsights]_vars

\* some part of the text is a JSON object JSON.parse accepts
HoldsJsonObject(text) ==
    \E i \in 1..Len(text) : \E j \in i..Len(text) : parses(SubSeq(text, i, j))

\* C20: generateTaskInsights never rejects; when the remote call throws, when no
\* API key is configured, or when the response holds no parsable JSON object,
\* it resolves to generateFallbackInsights of the same bundle; in FALLBACK_MODE
\* it does so without calling the remote generator.
C20_ResolvesWithFallback ==
    /\ fnRes.pc \in {"idle", "generateContent", "resolved"}
    /\ fnRes.key = <<FALLBACK_MODE>> => ~fnRes.called
    /\ fnRes.pc = "resolved" =>
        LET local == fnRes.out = <<Local(fnArg.data)>>
        IN  /\ fnRes.key = <<FALLBACK_MODE>> => local
            /\ (fnRes.key = NoKey \/ fnRes.key = <<"">>) => local /\ ~fnRes.called
            /\ (fnRes.called /\ fnRes.response.threw) => local
            /\ (fnRes.called /\ ~fnRes.response.threw
                    /\ ~HoldsJsonObject(fnRes.response.value[1])) => local

\* C20 witness: the response has braces that JSON.parse refuses, and the call
\* resolved to the local insights.
C20_UnparsableFellBack ==
    /\ fnRes.pc = "resolved"
    /\ fnRes.called
    /\ fnRes.response = Returned(<<"{", "t", "}">>)
    /\ fnRes.out = <<Local(fnArg.data)>>


\* the sections of AIInsights
AIInsightsSections ==
    {"highestCompletionRate", "timePatterns", "urgencyAnalysis", "productivityTrends"}

\* the members of a parsed object whose value is an object: the "{" at depth 1
objectMembers(json) ==
    Cardinality({n \in 2..Len(json) : json[n] = "{" /\ depthAt(json, n - 1) = 1})

\* the value has the four sections; of a remote object only that it has four
\* members that are objects
HasFourSections(value) ==
    IF value.strategy = "local"
    THEN DOMAIN value.insights[1] = AIInsightsSections
    ELSE objectMembers(value.json) >= Cardinality(AIInsightsSections)

\* C21: whichever strategy ran, the value generateTaskInsights resolves to has
\* the four sections of AIInsights; a remote response that is valid JSON and
\* lacks a section is not returned as is.
C21_FourSections ==
    fnRes.pc = "resolved" => HasFourSections(fnRes.out[1])

\* C21, the local strategy: its value has the four sections.
C21_LocalFourSections ==
    (fnRes.pc = "resolved" /\ fnRes.out[1].strategy = "local") =>
        HasFourSections(fnRes.out[1])

(***************************************************************************)
(* CreateEditTaskModal and CreateChildTaskModal: the form, its validation  *)
(* and handleSave, one store operation per step.  The component exists in  *)
(* four revisions; "first" and "second" are the two in                     *)
(* CreateEditTaskModal.tsx.                                                *)
(***************************************************************************)
MaxSaves == 1
MaxNewChildren == 1

ModalRevisions == {"first", "second", "part_004", "part_005"}

\* String.prototype.trim on a sequence of characters
trim(text) ==
    LET solid == {n \in 1..Len(text) : text[n] # " "}
    IN  IF solid = {} THEN <<>>
        ELSE SubSeq(text, CHOOSE n \in solid : \A m \in solid : n <= m,
                          CHOOSE n \in solid : \A m \in solid : m <= n)

\* validateDates(start, end) of the revisions that have it, and of
\* CreateChildTaskModal: TRUE when an error message is returned
validateDates(start, end, editing, now) ==
    \/ ~editing /\ start # <<>> /\ start[1] < now
    \/ start # <<>> /\ end # <<>> /\ start[1] > end[1]

\* the revisions whose handleSave calls validateDates
ValidatesDates(revision) == revision \in {"second", "part_005"}

\* what the user typed: a blank name, a name alone, an end before the start,
\* and a start before the end
FormChoices ==
    {[taskName |-> <<" ">>, startTime |-> <<>>, endTime |-> <<>>, level |-> 4],
     [taskName |-> <<"a">>, startTime |-> <<>>, endTime |-> <<>>, level |-> 4],
     [taskName |-> <<"a">>, startTime |-> <<1>>, endTime |-> <<0>>, level |-> 4],
     [taskName |-> <<"a", " ">>, startTime |-> <<0>>, endTime |-> <<1>>, level |-> 4]}

ChildFormChoices ==
    {[childName |-> <<"c">>, childDetail |-> <<>>, childStartTime |-> <<>>,
      childEndTime |-> <<>>],
     [childName |-> <<"c">>, childDetail |-> <<"d">>, childStartTime |-> <<1>>,
      childEndTime |-> <<0>>],
     [childName |-> <<"c">>, childDetail |-> <<"d">>, childStartTime |-> <<>>,
      childEndTime |-> <<1>>]}

\* the rest of the model leaves the modal and the second session alone
ModalFrame == UNCHANGED <<creator, creator2, remover, deleter, saver, clock,
                          ruVars, wVars, odVars, fnVars>>

\* onAuthStateChanged: the signed-in user changes, or signs out, in any tab of
\* the browser; the page reloads its list and leaves `editing` and the modal
onAuthStateChanged ==
    \E user \in {<<>>} \cup {<<u>> : u \in Users} :
        /\ user # modal.currentUser
        /\ modal' = [modal EXCEPT !.currentUser = user]
        /\ UNCHANGED dbVars /\ UNCHANGED rdVars /\ ModalFrame

\* TasksPage.handleEdit(t) on a task of the list loaded for the current user;
\* the first revision then loads the children listed in edit.task_child
handleEdit ==
    \E id \in DOMAIN tasks, revision \in ModalRevisions :
        /\ modal.pc = "closed"
        /\ modal.saves < MaxSaves
        /\ modal.currentUser # <<>>
        /\ tasks[id].user_id = modal.currentUser[1]
        /\ LET listed == itemsOrEmpty(tasks[id].task_child)
               loaded == SelectSeq(listed, LAMBDA c : c \in DOMAIN taskChild)
           IN  modal' = [ModalClosed(modal.currentUser) EXCEPT
                            !.pc = "open", !.saves = modal.saves, !.revision = revision,
                            !.edit = <<[id |-> id, task_child |-> tasks[id].task_child]>>,
                            !.childTasks =
                                IF revision = "first"
                                THEN [k \in 1..Len(loaded) |-> [id |-> <<loaded[k]>>]]
                                ELSE <<>>]
        /\ UNCHANGED dbVars /\ UNCHANGED rdVars /\ ModalFrame

\* the modal opened without a task to edit
handleCreate ==
    \E revision \in ModalRevisions :
        /\ modal.pc = "closed"
        /\ modal.saves < MaxSaves
        /\ modal.currentUser # <<>>
        /\ modal' = [ModalClosed(modal.currentUser) EXCEPT
                        !.pc = "open", !.saves = modal.saves, !.revision = revision]
        /\ UNCHANGED dbVars /\ UNCHANGED rdVars /\ ModalFrame

\* CreateChildTaskModal.handleSave inside the first revision: a form that passes
\* its checks reaches handleChildSaved, which appends the child to childTasks
handleChildSaved ==
    \E child \in ChildFormChoices :
        /\ modal.pc = "open"
        /\ modal.revision = "first"
        /\ Len(SelectSeq(modal.childTasks, LAMBDA c : c.id = <<>>)) < MaxNewChildren
        /\ modal.currentUser # <<>>
        /\ trim(child.childName) # <<>> /\ trim(child.childDetail) # <<>>
        /\ ~validateDates(child.childStartTime, child.childEndTime, FALSE, clock)
        /\ modal' = [modal EXCEPT !.childTasks = Append(@, [id |-> <<>>])]
        /\ UNCHANGED dbVars /\ UNCHANGED rdVars /\ ModalFrame

\* handleSave up to its first await: the checks of the revision, then the call
\* of saveTaskWithLevel(currentUser.uid, taskData)
handleSave ==
    \E form \in FormChoices :
        /\ modal.pc = "open"
        /\ modal.saves < MaxSaves
        /\ LET editing == modal.edit # <<>>
               rejected ==
                   \/ modal.currentUser = <<>>
                   \/ trim(form.taskName) = <<>>
                   \/ /\ ValidatesDates(modal.revision)
                      /\ validateDates(form.startTime, form.endTime, editing, clock)
               owned == editing =>
                            /\ modal.edit[1].id \in DOMAIN tasks
                            /\ modal.currentUser # <<>>
                            /\ tasks[modal.edit[1].id].user_id = modal.currentUser[1]
           IN  modal' = [modal EXCEPT
                            !.saves = @ + 1, !.form = <<form>>, !.owned = owned,
                            !.uid = modal.currentUser,
                            !.writes = 0, !.threw = FALSE, !.i = 1,
                            !.savedChildIds = <<>>, !.mainTaskId = <<>>,
                            !.outcome = IF rejected THEN "rejected" ELSE "none",
                            !.pc = IF rejected THEN "open"
                                   ELSE IF editing THEN "levels" ELSE "create"]
        /\ UNCHANGED dbVars /\ UNCHANGED rdVars /\ ModalFrame

\* the task_child argument of the revision: edit?.task_child || [] in the first,
\* none in the others
ModalTaskChild ==
    IF modal.revision = "first"
    THEN IF modal.edit # <<>> /\ modal.edit[1].task_child.defined
         THEN modal.edit[1].task_child ELSE ArrayOf(<<>>)
    ELSE NullArray

\* new Date(value) of a form field, as the store keeps it
FormDate(value) == IF value = <<>> THEN NoDate ELSE <<Timestamp(value[1])>>

\* after saveTaskWithLevel has returned: the children of the first revision, or
\* the end of handleSave
AfterSave == IF modal.revision = "first" THEN "children" ELSE "closed"

\* handleSave: saveTaskWithLevel without an id, one batch commit
modalSaveCreate ==
    /\ modal.pc = "create"
    /\ FreshTaskId <= MaxTasks
    /\ tasks' = [id \in DOMAIN tasks \cup {FreshTaskId} |->
                    IF id \in DOMAIN tasks THEN tasks[id]
                    ELSE [taskPayload(modal.uid[1], modal.form[1].level, clock)
                             EXCEPT !.task_child = ModalTaskChild,
                                    !.start_time = FormDate(modal.form[1].startTime),
                                    !.end_time = FormDate(modal.form[1].endTime)]]
    /\ taskLevels' = [l \in DOMAIN taskLevels \cup {FreshLevelId} |->
                         IF l \in DOMAIN taskLevels THEN taskLevels[l]
                         ELSE [task_id |-> FreshTaskId, level |-> modal.form[1].level]]
    /\ issued' = [issued EXCEPT !.tasks = @ + 1, !.task_levels = @ + 1]
    /\ modal' = [modal EXCEPT !.mainTaskId = <<FreshTaskId>>, !.writes = @ + 1,
                              !.pc = AfterSave,
                              !.outcome = IF AfterSave = "closed" THEN "saved" ELSE @]
    /\ Written
    /\ UNCHANGED <<taskChild, taskProgress>> /\ ModalFrame

\* handleSave: saveTaskWithLevel with the id of `edit`, up to its task_levels
\* query
modalSaveLevels ==
    /\ modal.pc = "levels"
    /\ modal' = [modal EXCEPT
                    !.pc = "commit", !.beside = saver.pc,
                    !.levelDocs = SortedIds({l \in DOMAIN taskLevels :
                                      taskLevels[l].task_id = modal.edit[1].id})]
    /\ UNCHANGED dbVars /\ UNCHANGED rdVars /\ ModalFrame

\* handleSave: the batch commit of saveTaskWithLevel's update path; a failed
\* commit throws into handleSave's catch
modalSaveCommit ==
    /\ modal.pc = "commit"
    /\ LET id == modal.edit[1].id
           hasLevel == modal.levelDocs # <<>>
           fails == \/ id \notin DOMAIN tasks
                    \/ hasLevel /\ modal.levelDocs[1] \notin DOMAIN taskLevels
       IN  IF fails
           THEN /\ modal' = [modal EXCEPT !.pc = "open", !.outcome = "failed"]
                /\ UNCHANGED <<tasks, taskLevels, issued, rdVars>>
           ELSE /\ tasks' = [tasks EXCEPT ![id] =
                                [@ EXCEPT !.task_name = "task", !.task_detail = "",
                                          !.start_time = FormDate(modal.form[1].startTime),
                                          !.end_time = FormDate(modal.form[1].endTime),
                                          !.level = <<modal.form[1].level>>,
                                          !.task_child = ModalTaskChild]]
                /\ IF hasLevel
                   THEN /\ taskLevels' = [taskLevels EXCEPT
                                             ![modal.levelDocs[1]].level =
                                                 modal.form[1].level]
                        /\ UNCHANGED issued
                   ELSE /\ taskLevels' =
                             [l \in DOMAIN taskLevels \cup {FreshLevelId} |->
                                 IF l \in DOMAIN taskLevels THEN taskLevels[l]
                                 ELSE [task_id |-> id, level |-> modal.form[1].level]]
                        /\ issued' = [issued EXCEPT !.task_levels = @ + 1]
                /\ modal' = [modal EXCEPT
                                !.mainTaskId = <<id>>, !.writes = @ + 1,
                                !.pc = AfterSave,
                                !.outcome = IF AfterSave = "closed" THEN "saved" ELSE @]
                /\ Written
    /\ UNCHANGED <<taskChild, taskProgress>> /\ ModalFrame

\* handleSave, first revision: the write of the next entry of childTasks, an
\* updateDoc of a child that has an id and an addDoc of one that has none.  The
\* writes of Promise.all are all issued; one that throws fails the whole and the
\* others still happen.  addDoc throws on user_id: undefined.
modalSaveChild ==
    /\ modal.pc = "children"
    /\ modal.i <= Len(modal.childTasks)
    /\ LET child == modal.childTasks[modal.i]
       IN  IF child.id # <<>>
           THEN /\ modal' = [modal EXCEPT
                                !.i = @ + 1,
                                !.threw = @ \/ child.id[1] \notin DOMAIN taskChild,
                                !.writes = IF child.id[1] \in DOMAIN taskChild
                                           THEN @ + 1 ELSE @,
                                !.savedChildIds = Append(@, child.id[1])]
                /\ IF child.id[1] \in DOMAIN taskChild
                   THEN Written ELSE UNCHANGED rdVars
                /\ UNCHANGED dbVars
           ELSE IF modal.currentUser = <<>>
           THEN /\ modal' = [modal EXCEPT !.i = @ + 1, !.threw = TRUE]
                /\ UNCHANGED dbVars /\ UNCHANGED rdVars
           ELSE /\ taskChild' =
                     [c \in DOMAIN taskChild \cup {FreshChildId} |->
                         IF c \in DOMAIN taskChild THEN taskChild[c]
                         ELSE childPayload(modal.currentUser[1], modal.mainTaskId[1],
                                           clock)]
                /\ issued' = [issued EXCEPT !.task_child = @ + 1]
                /\ modal' = [modal EXCEPT !.i = @ + 1, !.writes = @ + 1,
                                          !.savedChildIds = Append(@, FreshChildId)]
                /\ Written
                /\ UNCHANGED <<tasks, taskProgress, taskLevels>>
    /\ ModalFrame

\* handleSave, first revision: after Promise.all, updateDoc(tasks/mainTaskId,
\* {task_child: savedChildIds}) when there are any, then onClose()
modalUpdateParent ==
    /\ modal.pc = "children"
    /\ modal.i > Len(modal.childTasks)
    /\ LET id == modal.mainTaskId[1]
           write == ~modal.threw /\ modal.savedChildIds # <<>>
           fails == write /\ id \notin DOMAIN tasks
       IN  /\ modal' = [modal EXCEPT
                           !.pc = IF modal.threw \/ fails THEN "open" ELSE "closed",
                           !.outcome = IF modal.threw \/ fails THEN "failed" ELSE "saved",
                           !.writes = IF write /\ ~fails THEN @ + 1 ELSE @]
           /\ IF write /\ ~fails
              THEN /\ tasks' = [tasks EXCEPT ![id].task_child =
                                   ArrayOf(modal.savedChildIds)]
                   /\ Written
              ELSE UNCHANGED <<tasks, rdVars>>
    /\ UNCHANGED <<taskChild, taskProgress, taskLevels, issued>> /\ ModalFrame

InitModal == InitStore

NextModal ==
    \/ Tick
    \/ onAuthStateChanged
    \/ handleEdit
    \/ handleCreate
    \/ handleChildSaved
    \/ handleSave
    \/ modalSaveCreate
    \/ modalSaveLevels
    \/ modalSaveCommit
    \/ modalSaveChild
    \/ modalUpdateParent
    \/ createChildTaskValidate
    \/ createChildTaskAdd
    \/ createChildTaskUpdateParent
    \/ deleteTaskRead
    \/ deleteTaskChildLevels
    \/ deleteTaskMainLevels
    \/ deleteTaskCommit

SpecModal == InitModal /\ [][NextModal]_vars

\* the child documents of the store are children of tasks of their own user
ChildrenOfOwner ==
    \A c \in DOMAIN taskChild :
        LET parentId == taskChild[c].parent_id
        IN  parentId \in DOMAIN tasks => tasks[parentId].user_id = taskChild[c].user_id

\* C22: a child is added only to a task that exists and belongs to the requesting
\* user: createChildTask goes on to its writes only for such a parent, a
\* handleSave called on a task that is missing or someone else's writes nothing,
\* and no child document is the child of another user's task.
C22_OwnerOnly ==
    /\ creator.pc # "idle" => creator.parentData.user_id = creator.uid
    /\ ~modal.owned => modal.writes = 0
    /\ ChildrenOfOwner

\* C22, createChildTask alone: its writes follow a validation that found the
\* parent and found it owned by the caller.
C22_CreateChildTaskValidates ==
    creator.pc # "idle" => creator.parentData.user_id = creator.uid

\* a form with an empty name or with an end time earlier than its start time
InvalidForm(form) ==
    \/ trim(form.taskName) = <<>>
    \/ form.startTime # <<>> /\ form.endTime # <<>> /\ form.endTime[1] < form.startTime[1]

\* C23: a save with an empty name or with an end time earlier than the start
\* time is rejected before any store write, in every revision of the modal, and
\* a save that passed the checks and then failed has written nothing.
C23_RejectedOrWhole ==
    /\ (modal.form # <<>> /\ InvalidForm(modal.form[1])) => modal.writes = 0
    /\ modal.outcome = "failed" => modal.writes = 0

\* C23, the empty name alone: every revision rejects it before any write.
C23_EmptyNameRejected ==
    (modal.form # <<>> /\ trim(modal.form[1].taskName) = <<>>) =>
        (modal.outcome = "rejected" /\ modal.writes = 0)

(***************************************************************************)
(* The local strategy on per-level and per-month maps.  A map is the       *)
(* sequence of its insertions; Object.entries lists integer keys in        *)
(* ascending order first and the other keys in insertion order.            *)
(***************************************************************************)
MaxMapEntries == 2

\* Object.entries of a map whose keys are levels
ObjectEntries(map) ==
    LET keys == SortedIds({map[k].level : k \in 1..Len(map)})
    IN  [n \in 1..Len(keys) |->
            map[CHOOSE k \in 1..Len(map) : map[k].level = keys[n]]]

BestLevels == {1, 3, 5}
StatsChoices == {<<0, 0>>, <<2, 1>>, <<4, 2>>, <<1, 1>>}
MonthCounts == {2, 3}
MonthNames == <<"March", "April", "May">>

\* the per-level maps: up to MaxMapEntries levels, inserted in any order
LevelMaps ==
    UNION {{[k \in 1..n |-> [level |-> order[k], total |-> stats[k][1],
                             completed |-> stats[k][2]]] :
               order \in {o \in [1..n -> BestLevels] :
                             \A i, j \in 1..n : i # j => o[i] # o[j]},
               stats \in [1..n -> StatsChoices]} : n \in 0..MaxMapEntries}

\* the per-month maps: up to MaxMapEntries months in the order of insertion
MonthMaps ==
    UNION {{[k \in 1..n |-> <<MonthNames[k], counts[k]>>] :
               counts \in [1..n -> MonthCounts]} : n \in 0..MaxMapEntries}

BestInputs ==
    {[tasksByLevel |-> l, tasksByMonth |-> m, urgentTasks |-> 0, completedTasks |-> 0,
      overdueTasks |-> 0] : l \in LevelMaps, m \in MonthMaps}

\* generateFallbackInsights(data) on the entries of the maps
RunFallbackInsights ==
    /\ fnArg # <<>> /\ fnRes = <<>>
    /\ fnRes' = <<generateFallbackInsights(
                     [fnArg[1] EXCEPT !.tasksByLevel = ObjectEntries(@)])>>
    /\ UNCHANGED <<fnArg, ruVars, wVars, odVars, aggVars>>

InitBest ==
    /\ fnArg \in {<<data>> : data \in BestInputs}
    /\ fnRes = <<>>
    /\ RollUpIdle /\ WindowIdle /\ OverdueIdle /\ AggIdle

NextBest == RunFallbackInsights

SpecBest == InitBest /\ [][NextBest]_vars

\* completed/total of a is at least that of b (0 when the total is 0)
RateAtLeast(a, b) ==
    LET ca == IF a.total > 0 THEN a.completed ELSE 0
        ta == IF a.total > 0 THEN a.total ELSE 1
        cb == IF b.total > 0 THEN b.completed ELSE 0
        tb == IF b.total > 0 THEN b.total ELSE 1
    IN  ca * tb >= cb * ta

\* C24: the best level of the local strategy is the lowest level among those of
\* the highest completion rate, with that rate (level 1 with rate 0 for an empty
\* map); the busiest and the quietest month are the first month of the highest
\* and the first of the lowest count.
C24_FirstMaximum ==
    fnRes # <<>> =>
        LET levels == fnArg[1].tasksByLevel
            months == fnArg[1].tasksByMonth
            out == fnRes[1]
            best == out.highestCompletionRate
        IN  /\ levels = <<>> => best.level = 1 /\ RatCompare(best.rate, RatZero) = 0
            /\ levels # <<>> =>
                 \E k \in 1..Len(levels) :
                    /\ levels[k].level = best.level
                    /\ RatCompare(best.rate,
                                  IF levels[k].total > 0
                                  THEN Rat(levels[k].completed * 100, levels[k].total)
                                  ELSE RatZero) = 0
                    /\ \A j \in 1..Len(levels) :
                          /\ RateAtLeast(levels[k], levels[j])
                          /\ RateAtLeast(levels[j], levels[k]) =>
                                 levels[k].level <= levels[j].level
            /\ months # <<>> =>
                 /\ \E k \in 1..Len(months) :
                       /\ months[k][1] = out.timePatterns.busiestMonth
                       /\ \A j \in 1..Len(months) :
                             /\ months[k][2] >= months[j][2]
                             /\ months[j][2] = months[k][2] => k <= j
                 /\ \E k \in 1..Len(months) :
                       /\ months[k][1] = out.timePatterns.quietestMonth
                       /\ \A j \in 1..Len(months) :
                             /\ months[k][2] <= months[j][2]
                             /\ months[j][2] = months[k][2] => k <= j

\* C24: levels 5 and 1, inserted in that order, tie at one half and level 1 is
\* reported; the two months tie and the first is both busiest and quietest.
C24_TieGoesToLowerLevel ==
    /\ fnRes # <<>>
    /\ Len(fnArg[1].tasksByLevel) = 2
    /\ fnArg[1].tasksByLevel[1] = [level |-> 5, total |-> 2, completed |-> 1]
    /\ fnArg[1].tasksByLevel[2] = [level |-> 1, total |-> 4, completed |-> 2]
    /\ fnRes[1].highestCompletionRate.level = 1
    /\ fnArg[1].tasksByMonth = <<<<"March", 2>>, <<"April", 2>>>>
    /\ fnRes[1].timePatterns.busiestMonth = "March"
    /\ fnRes[1].timePatterns.quietestMonth = "March"

(***************************************************************************)
(* saveTaskWithLevel called from two sessions: the calls of the service    *)
(* and the ones handleSave makes.                                          *)
(***************************************************************************)
InitSave == InitStore

NextSave ==
    \/ Tick
    \/ saveTaskWithLevelCreate
    \/ saveTaskWithLevelRead
    \/ saveTaskWithLevelCommit
    \/ handleEdit
    \/ handleCreate
    \/ handleSave
    \/ modalSaveCreate
    \/ modalSaveLevels
    \/ modalSaveCommit
    \/ modalSaveChild
    \/ modalUpdateParent

SpecSave == InitSave /\ [][NextSave]_vars

\* the task_levels documents of a task
LevelDocsOf(id) == {l \in DOMAIN taskLevels : taskLevels[l].task_id = id}

\* C25: whatever saveTaskWithLevel calls have run or are in flight, every task of
\* the store has exactly one task_levels document, and its level is the level
\* field of the task document.
C25_OneLevelDocument ==
    \A id \in DOMAIN tasks :
        /\ Cardinality(LevelDocsOf(id)) = 1
        /\ \A l \in LevelDocsOf(id) : tasks[id].level = <<taskLevels[l].level>>

\* C25: the modal's update of task 1 sent its query while the other session's
\* update was between its query and its commit, and both have committed.
C25_TwoUpdatesInterleaved ==
    /\ modal.outcome = "saved" /\ modal.edit # <<>> /\ modal.beside = "read"
    /\ saver.pc = "idle"
    /\ modal.edit[1].id \in DOMAIN tasks
    /\ tasks[modal.edit[1].id].level = <<3>>

\* C26: the commit of an edit made through saveTaskWithLevel without a task_child
\* argument (the revisions of the modal other than the first) leaves the
\* child-id list of the task as it was.
C26_ChildListKept ==
    [][(/\ modal.pc = "commit" /\ modal'.pc = "closed"
        /\ modal.revision # "first")
       => tasks'[modal.edit[1].id].task_child = tasks[modal.edit[1].id].task_child]_vars

\* C26, the same edit made by a direct call of saveTaskWithLevel.
C26_ServiceChildListKept ==
    [][(/\ saver.pc = "read" /\ saver'.pc = "idle" /\ ~saver.task_child.defined
        /\ saver.id \in DOMAIN tasks /\ tasks' # tasks)
       => tasks'[saver.id].task_child = tasks[saver.id].task_child]_vars

(***************************************************************************)
(* createChildTask called in a second session, next to the first and to    *)
(* deleteChildTask.                                                        *)
(***************************************************************************)
SecondFrame == UNCHANGED <<creator, modal, remover, deleter, saver, clock,
                           ruVars, wVars, odVars, fnVars>>

\* createChildTask of the second session, up to the validation of the parent
createChildTaskValidate2 ==
    \E uid \in Users, parentId \in ParentChoices :
        /\ creator2.pc = "idle"
        /\ creator2.made < MaxCreates
        /\ creator2' =
             IF parentId \notin DOMAIN tasks \/ tasks[parentId].user_id # uid
             THEN creator2
             ELSE [pc |-> "validated", made |-> creator2.made + 1, uid |-> uid,
                   parentId |-> parentId, parentData |-> tasks[parentId]]
        /\ UNCHANGED dbVars /\ UNCHANGED rdVars /\ SecondFrame

\* createChildTask of the second session: addDoc
createChildTaskAdd2 ==
    /\ creator2.pc = "validated"
    /\ taskChild' = [c \in DOMAIN taskChild \cup {FreshChildId} |->
                        IF c \in DOMAIN taskChild THEN taskChild[c]
                        ELSE childPayload(creator2.uid, creator2.parentId, clock)]
    /\ creator2' = [pc |-> "added", made |-> creator2.made, uid |-> creator2.uid,
                    parentId |-> creator2.parentId, parentData |-> creator2.parentData,
                    childId |-> FreshChildId]
    /\ issued' = [issued EXCEPT !.task_child = @ + 1]
    /\ Written
    /\ UNCHANGED <<tasks, taskProgress, taskLevels>> /\ SecondFrame

\* createChildTask of the second session: updateDoc of the parent's task_child
createChildTaskUpdateParent2 ==
    /\ creator2.pc = "added"
    /\ LET currentChildren == creator2.parentData.task_child
           appended == IF currentChildren.defined
                       THEN ArrayOf(Append(currentChildren.items, creator2.childId))
                       ELSE ArrayOf(<<creator2.childId>>)
       IN  IF creator2.parentId \in DOMAIN tasks
           THEN tasks' = [tasks EXCEPT ![creator2.parentId].task_child = appended]
           ELSE tasks' = tasks
    /\ creator2' = [pc |-> "idle", made |-> creator2.made]
    /\ Written
    /\ UNCHANGED <<taskChild, taskProgress, taskLevels, issued>> /\ SecondFrame

InitRace == InitStore

NextRace ==
    \/ Tick
    \/ createChildTaskValidate
    \/ createChildTaskAdd
    \/ createChildTaskUpdateParent
    \/ createChildTaskValidate2
    \/ createChildTaskAdd2
    \/ createChildTaskUpdateParent2
    \/ deleteChildTaskRead
    \/ deleteChildTaskCommit

SpecRace == InitRace /\ [][NextRace]_vars

\* the ids of the task's task_child array
ListedChildren(id) ==
    LET items == itemsOrEmpty(tasks[id].task_child)
    IN  {items[k] : k \in 1..Len(items)}

\* C27: once the createChildTask and deleteChildTask calls in flight have
\* completed, the task_child array of a task holds the id of every child
\* document created for it and of none that was deleted.
C27_NoLostUpdate ==
    (creator.pc = "idle" /\ creator2.pc = "idle" /\ remover.pc = "idle") =>
        \A id \in DOMAIN tasks :
            ListedChildren(id) = {c \in DOMAIN taskChild : taskChild[c].parent_id = id}

\* C27, two createChildTask calls alone: after both, both ids are in the array.
C27_BothChildrenListed ==
    (/\ creator.pc = "idle" /\ creator2.pc = "idle" /\ remover.pc = "idle"
     /\ creator.made = 1 /\ creator2.made = 1 /\ issued.task_child = 3
     /\ {ChildId(2), ChildId(3)} \subseteq DOMAIN taskChild) =>
        {ChildId(2), ChildId(3)} \subseteq ListedChildren(1)

(***************************************************************************)
(* getAggregatedTask on a store whose child-id lists have been written by  *)
(* createChildTask and by saveTaskWithLevel, and whose progress records by *)
(* updateTaskProgress.                                                     *)
(***************************************************************************)
InitProgress == InitStore

NextProgress ==
    \/ saveTaskWithLevelRead
    \/ saveTaskWithLevelCommit
    \/ createChildTaskValidate
    \/ createChildTaskAdd
    \/ createChildTaskUpdateParent
    \/ updateTaskProgress
    \/ getMultipleAggregatedTasks
    \/ AggGetTaskById
    \/ AggGetTaskProgress
    \/ AggGetChildTasks
    \/ AggGetMultipleTaskProgress
    \/ AggSettle

SpecProgress == InitProgress /\ [][NextProgress]_vars

\* the status a child of an AggregatedTask shows, and the one its progress
\* record in the store has
ShownStatus(child) == IF child.progress.present THEN <<child.progress.status>> ELSE <<>>
StoredStatus(id) ==
    IF id \in DOMAIN taskProgress THEN <<taskProgress[id].task_status>> ELSE <<>>

\* C28: in the AggregatedTask of a getAggregatedTask call that ran with no write
\* beside it, on the store as it still is, every child shows the status of its
\* progress record, and no progress when it has no record.
C28_ChildStatusIsStored ==
    \A id \in QueryIds :
        (lastDone[id] # <<>> /\ lastDone[id][1].pc = "fulfilled"
            /\ lastDone[id][1].out # <<>>) =>
            LET children == lastDone[id][1].out[1].children.items
            IN  \A k \in 1..Len(children) :
                    ShownStatus(children[k]) = StoredStatus(children[k].id)

\* C28, the children the task_child array lists: each shows its stored status.
C28_ListedChildStatusIsStored ==
    \A id \in QueryIds :
        (lastDone[id] # <<>> /\ lastDone[id][1].pc = "fulfilled"
            /\ lastDone[id][1].out # <<>> /\ id \in DOMAIN tasks) =>
            LET children == lastDone[id][1].out[1].children.items
            IN  \A k \in 1..Len(children) :
                    children[k].id \in ListedChildren(id) =>
                        ShownStatus(children[k]) = StoredStatus(children[k].id)

\* (effective level, end time) of a is not after that of b, in lexicographic
\* order, an unset level counting as 5 and a task without end time coming last
KeyNotAfter(a, b) ==
    \/ orElse(a.level, 5) < orElse(b.level, 5)
    \/ /\ orElse(a.level, 5) = orElse(b.level, 5)
       /\ \/ b.end_time = NoDate
          \/ a.end_time # NoDate /\ a.end_time[1] <= b.end_time[1]

\* C29: TaskList.sortedTasks holds exactly the tasks that are neither COMPLETED
\* nor CANCELLED, each once, in the order of (effective level, end time).
C29_ActiveInKeyOrder ==
    fnRes.tasklist # NotRun =>
        LET order == fnRes.tasklist[1].unset
        IN  /\ {order[k] : k \in 1..Len(order)} =
                   {k \in 1..Len(fnArg) : fnArg[k].status \notin {COMPLETED, CANCELLED}}
            /\ \A i, j \in 1..Len(order) : i # j => order[i] # order[j]
            /\ \A i, j \in 1..Len(order) :
                   i < j => KeyNotAfter(fnArg[order[i]], fnArg[order[j]])

\* C29, the filter alone: the list holds exactly the active tasks, each once.
C29_ExactlyTheActive ==
    fnRes.tasklist # NotRun =>
        LET order == fnRes.tasklist[1].unset
        IN  /\ {order[k] : k \in 1..Len(order)} =
                   {k \in 1..Len(fnArg) : fnArg[k].status \notin {COMPLETED, CANCELLED}}
            /\ \A i, j \in 1..Len(order) : i # j => order[i] # order[j]

\* the first day of the calendar month before the month of the date
MonthBefore(date) == MkDate(getFullYear(date), getMonth(date) - 1, 1, 0)

\* C30: the previous statistics of the growth computation are those of the
\* calendar month before the selected month, whatever the day of the selected
\* date.
C30_PreviousIsMonthBefore ==
    wOut.summary # NotRun =>
        wOut.summary[1].previous = getMonthlyStats(MonthBefore(wSelected), wTasks, wNow)

\* C30, a selected date set by the month picker (the first of the month): the
\* previous statistics are those of the month before.
C30_PickedMonthPrevious ==
    (wOut.summary # NotRun /\ getDate(wSelected) = 1) =>
        wOut.summary[1].previous = getMonthlyStats(MonthBefore(wSelected), wTasks, wNow)

=============================================================================
